---------------------------- MODULE Spec2Model ----------------------------
(***************************************************************************)
(* Model of the storage record layer of loga (lib/storage):                *)
(*   - Header and EntryV1 binary format, one-shot encode/decode and the    *)
(*     resumable read_at encoder (entry/header.rs, entry/impls_v1.rs),     *)
(*   - BuilderV1 (entry/impls_v1.rs),                                      *)
(*   - JournalEntryContext and JournalWriterImpl (journal/writer.rs).      *)
(* Bytes are integers 0..255, byte strings are sequences of bytes.  A      *)
(* destination buffer `buf` of a read_at call is modelled by its length    *)
(* dst_len and by the bytes the call stores in buf[0..n): every store of   *)
(* the code goes to buf[n..] just before n is advanced.                    *)
(***************************************************************************)
EXTENDS Integers, Sequences, FiniteSets, TLC

(***************************************************************************)
(* Bounds of the model.                                                    *)
(***************************************************************************)
\* short keys and values have 0..MaxShort bytes
MaxShort == 2
\* length of the long key: its length delimiter takes two bytes
LongKey == 128
\* auxiliary headers a builder takes
MaxHeaders == 2
\* fixed buffer lengths a reader passes to read_at (besides binary_size + 1)
MaxStep == 3
\* writer buffer capacities 0..MaxCap
MaxCap == 4
\* append_entry calls per run of the writer
MaxAppends == 2
\* sink write failures per run of the writer
MaxFails == 1
\* a sink write may fail only while the sink holds fewer bytes than this
FailWindow == 6

(***************************************************************************)
(* Program constants.                                                      *)
(***************************************************************************)
COMMON_HEADER_BINARY_SIZE == 29
COMMON_HEADER_MAGIC_OFFSET == 0
COMMON_HEADER_ATTR_OFFSET == 1
COMMON_HEADER_LOG_ID_OFFSET == 5
COMMON_HEADER_ENTRY_ID_OFFSET == 13
COMMON_HEADER_LAC_ID_OFFSET == 21
\* Magic::V1
MagicV1 == 1

(***************************************************************************)
(* Sequence helpers.                                                       *)
(***************************************************************************)
Min(a, b) == IF a <= b THEN a ELSE b

\* s[k..] of Rust: s without its first k elements (k <= Len(s))
Drop(s, k) == SubSeq(s, k + 1, Len(s))

\* s[..k] of Rust
Take(s, k) == SubSeq(s, 1, k)

\* n zero bytes
Zeros(n) == [i \in 1..n |-> 0]

\* dst with src stored at dst[at..at+Len(src)) (0-based at)
StoreAt(dst, at, src) ==
    Take(dst, at) \o src \o Drop(dst, at + Len(src))

(***************************************************************************)
(* prost length delimiters (base-128 varints).                             *)
(***************************************************************************)
length_delimiter_len(n) ==
    IF n < 128 THEN 1
    ELSE IF n < 16384 THEN 2
    ELSE IF n < 2097152 THEN 3
    ELSE IF n < 268435456 THEN 4
    ELSE 5

RECURSIVE encode_length_delimiter(_)
encode_length_delimiter(n) ==
    IF n < 128 THEN <<n>>
    ELSE <<(n % 128) + 128>> \o encode_length_delimiter(n \div 128)

\* the varint that starts buf, its first byte being byte number `count`
\* (from 0) of the varint: a varint has at most 10 bytes, and the tenth byte
\* is 0 or 1 (a larger one does not fit 64 bits); a buffer that ends inside
\* the varint, an eleventh byte or a tenth byte above 1 is "invalid varint".
\* A value of 2^31 or more, longer than any buffer, is held as 2^31 - 1.
RECURSIVE decode_varint(_, _)
decode_varint(buf, count) ==
    IF buf = <<>> \/ count >= 10 THEN [ok |-> FALSE, value |-> 0, rest |-> <<>>]
    ELSE IF Head(buf) < 128
         THEN IF count = 9 /\ Head(buf) >= 2
              THEN [ok |-> FALSE, value |-> 0, rest |-> <<>>]
              ELSE [ok |-> TRUE, value |-> Head(buf), rest |-> Tail(buf)]
         ELSE LET r == decode_varint(Tail(buf), count + 1)
              IN  IF r.ok
                  THEN [ok |-> TRUE,
                        value |-> IF r.value >= 16777216 THEN 2147483647
                                  ELSE (Head(buf) - 128) + 128 * r.value,
                        rest |-> r.rest]
                  ELSE r

\* [ok, value, rest]: the decoded length and the bytes left in the buffer
decode_length_delimiter(buf) == decode_varint(buf, 0)

(***************************************************************************)
(* Little-endian integers (two's complement) of w bytes.                   *)
(***************************************************************************)
RECURSIVE to_le_bytes(_, _)
to_le_bytes(v, w) ==
    IF w = 0 THEN <<>> ELSE <<v % 256>> \o to_le_bytes(v \div 256, w - 1)

RECURSIVE from_le_bytes(_)
from_le_bytes(bs) ==
    IF Len(bs) = 1 THEN (IF bs[1] >= 128 THEN bs[1] - 256 ELSE bs[1])
    ELSE bs[1] + 256 * from_le_bytes(Tail(bs))

(***************************************************************************)
(* CRC-32 (ISCSI / Castagnoli), reflected, bit by bit.  The 32-bit         *)
(* register is a record of its two 16-bit halves [hi, lo].                 *)
(***************************************************************************)
\* bit p (a power of two) of the exclusive or of two numbers
XorBit(a, b, p) == (((a \div p) + (b \div p)) % 2) * p

\* the exclusive or of two numbers of 16 bits
Xor(a, b) ==
    XorBit(a, b, 1) + XorBit(a, b, 2) + XorBit(a, b, 4) + XorBit(a, b, 8)
    + XorBit(a, b, 16) + XorBit(a, b, 32) + XorBit(a, b, 64) + XorBit(a, b, 128)
    + XorBit(a, b, 256) + XorBit(a, b, 512) + XorBit(a, b, 1024)
    + XorBit(a, b, 2048) + XorBit(a, b, 4096) + XorBit(a, b, 8192)
    + XorBit(a, b, 16384) + XorBit(a, b, 32768)

\* 0x82F63B78, the reflected Castagnoli polynomial
CrcPoly == [hi |-> 33526, lo |-> 15224]

\* one bit of input: shift right, and xor the polynomial if a 1 fell out
CrcShift(reg) ==
    IF reg.lo % 2 = 1
    THEN [hi |-> Xor(reg.hi \div 2, CrcPoly.hi),
          lo |-> Xor((reg.lo \div 2) + 32768 * (reg.hi % 2), CrcPoly.lo)]
    ELSE [hi |-> reg.hi \div 2,
          lo |-> (reg.lo \div 2) + 32768 * (reg.hi % 2)]

\* one byte of input
CrcByte(reg, b) ==
    CrcShift(CrcShift(CrcShift(CrcShift(CrcShift(CrcShift(CrcShift(CrcShift(
        [hi |-> reg.hi, lo |-> Xor(reg.lo, b)]))))))))

\* the values of the register
Register == [hi : 0..65535, lo : 0..65535]

\* Digest::update over a byte string: byte by byte, in order (an update
\* with a ++ b is an update with a followed by an update with b)
RECURSIVE CrcUpdate(_, _)
CrcUpdate(reg, bs) ==
    IF bs = <<>> THEN reg
    ELSE IF Len(bs) = 1 THEN CrcByte(reg, bs[1])
    ELSE LET mid == CrcUpdate(reg, Take(bs, Len(bs) \div 2))
         IN  IF mid \in Register
             THEN CrcUpdate(mid, Drop(bs, Len(bs) \div 2))
             ELSE mid

\* CRC_INSTANCE.digest(): the initial register, 0xFFFFFFFF
CrcInit == [hi |-> 65535, lo |-> 65535]

\* digest.finalize().to_le_bytes(): the register xor 0xFFFFFFFF
CrcFinalize(reg) ==
    to_le_bytes(65535 - reg.lo, 2) \o to_le_bytes(65535 - reg.hi, 2)

\* the checksum of a byte string
crc32_iscsi(bs) == CrcFinalize(CrcUpdate(CrcInit, bs))


(***************************************************************************)
(* util: copy_slice and the multi-stage copy macros.  The state of a       *)
(* read_at body threaded through its stages is a record                    *)
(*   offset : the stage-relative offset (`$stage_offset`),                 *)
(*   out    : the bytes stored so far, buf[0..n) (`$dst_offset` = Len(out)),*)
(*   ret    : the body has executed `return`,                              *)
(*   panic  : a usize subtraction underflowed in a build with overflow     *)
(*            checks, or a slice was out of range,                         *)
(*   overflow_checks : the build panics on usize overflow (dev profile);   *)
(*            without them (release profile) the subtraction wraps, and    *)
(*            the wrapped usize v is held as the negative integer v - 2^64.*)
(***************************************************************************)
\* copy_slice(src, dst) with Len(dst) = dst_len: the bytes stored in dst[..n]
copy_slice(src, dst_len) == Take(src, Min(Len(src), dst_len))

Stage0(offset, overflow_checks) ==
    [offset |-> offset, out |-> <<>>, ret |-> FALSE, panic |-> FALSE,
     overflow_checks |-> overflow_checks]

StagePanic(st) == [st EXCEPT !.ret = TRUE, !.panic = TRUE]

\* a < b on usize: a wrapped a is above every length
usize_lt(a, b) == a >= 0 /\ a < b

\* the assignment of a sum or difference to the stage offset: a result that
\* underflows panics with overflow checks and wraps without them
StageOffset(st, offset) ==
    IF st.offset >= 0 /\ offset < 0 /\ st.overflow_checks
    THEN StagePanic(st)
    ELSE [st EXCEPT !.offset = offset]

\* customize_copy_slice_with_multi_stage!(custom_copy, src_len, dst, stage_offset, dst_offset)
\* custom_copy is the byte string the custom copy expression stores in dst[n..]
customize_copy_slice_with_multi_stage(custom_copy, src_len, dst_len, st) ==
    IF st.ret THEN st
    ELSE IF Len(st.out) = dst_len THEN [st EXCEPT !.ret = TRUE]
    ELSE IF usize_lt(st.offset, src_len)
         THEN LET out == st.out \o custom_copy
              IN  IF Len(out) = dst_len
                  THEN [st EXCEPT !.out = out, !.ret = TRUE]
                  ELSE StageOffset([st EXCEPT !.out = out],
                                   st.offset + Len(custom_copy) - src_len)
         ELSE StageOffset(st, st.offset - src_len)

\* a stage that copies src from its first byte, whatever the stage offset
copy_slice_with_multi_stage_from_start(src, dst_len, st) ==
    IF st.ret THEN st
    ELSE IF Len(st.out) = dst_len THEN [st EXCEPT !.ret = TRUE]
    ELSE IF usize_lt(st.offset, Len(src))
         THEN LET tmp == copy_slice(src, dst_len - Len(st.out))
                  out == st.out \o tmp
              IN  IF Len(out) = dst_len
                  THEN [st EXCEPT !.out = out, !.ret = TRUE]
                  ELSE [st EXCEPT !.out = out,
                                  !.offset = st.offset + Len(tmp) - Len(src)]
         ELSE StageOffset(st, st.offset - Len(src))

\* copy_slice_with_multi_stage!(src, dst, stage_offset, dst_offset)
copy_slice_with_multi_stage(src, dst_len, st) ==
    IF st.ret THEN st
    ELSE IF Len(st.out) = dst_len THEN [st EXCEPT !.ret = TRUE]
    ELSE IF usize_lt(st.offset, Len(src))
         THEN LET tmp == copy_slice(Drop(src, st.offset), dst_len - Len(st.out))
                  out == st.out \o tmp
              IN  IF Len(out) = dst_len
                  THEN [st EXCEPT !.out = out, !.ret = TRUE]
                  ELSE StageOffset([st EXCEPT !.out = out],
                                   st.offset + Len(tmp) - Len(src))
         ELSE StageOffset(st, st.offset - Len(src))

(***************************************************************************)
(* Header (entry/header.rs): a record [key, value] of byte strings.        *)
(***************************************************************************)
Header_new(key, value) == [key |-> key, value |-> value]

\* a size that leaves out the length delimiter of the key
Header_binary_size_no_key_delimiter(h) ==
    Len(h.key) + Len(h.value)

Header_binary_size(h) ==
    length_delimiter_len(Len(h.key)) + Len(h.key) + Len(h.value)

Header_encode(h) ==
    encode_length_delimiter(Len(h.key)) \o h.key \o h.value

\* Header::read_at(buf, offset): the stage state after the three stages;
\* the call returns Len(out) and has stored out in buf[0..Len(out))
Header_read_at(h, dst_len, offset, overflow_checks) ==
    LET key_len == Len(h.key)
        key_len_size == length_delimiter_len(key_len)
        st0 == Stage0(offset, overflow_checks)
        \* the custom copy takes the whole delimiter, whatever the offset
        st1 == customize_copy_slice_with_multi_stage(
                   copy_slice(encode_length_delimiter(key_len), dst_len - Len(st0.out)),
                   key_len_size, dst_len, st0)
        st2 == copy_slice_with_multi_stage(h.key, dst_len, st1)
        st3 == copy_slice_with_multi_stage(h.value, dst_len, st2)
    IN  st3

\* a decode that takes the first byte alone for the key length
Header_decode_one_byte_delimiter(buf) ==
    LET none == Header_new(<<>>, <<>>)
    IN  IF buf = <<>> THEN [status |-> "ProstDecode", header |-> none]
        ELSE IF Head(buf) > Len(buf) - 1 THEN [status |-> "panic", header |-> none]
        ELSE [status |-> "ok",
              header |-> [key |-> Take(Tail(buf), Head(buf)),
                          value |-> Drop(Tail(buf), Head(buf))]]

\* a decode whose value is at most one byte of what follows the key
Header_decode_value_one_byte(buf) ==
    LET d == decode_length_delimiter(buf)
        none == Header_new(<<>>, <<>>)
    IN  IF ~d.ok THEN [status |-> "ProstDecode", header |-> none]
        ELSE IF d.value > Len(d.rest) THEN [status |-> "panic", header |-> none]
        ELSE [status |-> "ok",
              header |-> [key |-> Take(d.rest, d.value),
                          value |-> IF Len(d.rest) > d.value
                                    THEN <<d.rest[d.value + 1]>> ELSE <<>>]]

\* Header::decode(buf): key length, key, and all remaining bytes as value
Header_decode(buf) ==
    LET d == decode_length_delimiter(buf)
        none == Header_new(<<>>, <<>>)
    IN  IF ~d.ok THEN [status |-> "ProstDecode", header |-> none]
        ELSE IF d.value > Len(d.rest) THEN [status |-> "panic", header |-> none]
        ELSE [status |-> "ok",
              header |-> [key |-> Take(d.rest, d.value), value |-> Drop(d.rest, d.value)]]

(***************************************************************************)
(* BuilderV1 (entry/impls_v1.rs): [common_header, kv, headers]; the        *)
(* Option kv is the empty sequence (None) or a one-element sequence.       *)
(***************************************************************************)
BuilderV1_new ==
    [common_header |-> StoreAt(Zeros(COMMON_HEADER_BINARY_SIZE),
                               COMMON_HEADER_MAGIC_OFFSET, <<MagicV1>>),
     kv |-> <<>>,
     headers |-> <<>>]

put_i64_to_common_header(b, offset, value) ==
    [b EXCEPT !.common_header = StoreAt(@, offset, copy_slice(to_le_bytes(value, 8), 8))]

put_i32_to_common_header(b, offset, value) ==
    [b EXCEPT !.common_header = StoreAt(@, offset, copy_slice(to_le_bytes(value, 4), 4))]

BuilderV1_attr(b, attr) == put_i32_to_common_header(b, COMMON_HEADER_ATTR_OFFSET, attr)

BuilderV1_log_id(b, log_id) == put_i64_to_common_header(b, COMMON_HEADER_LOG_ID_OFFSET, log_id)

\* an entry_id setter that writes at the offset of last_confirm_id
BuilderV1_entry_id_at_lac_offset(b, entry_id) ==
    put_i64_to_common_header(b, COMMON_HEADER_LAC_ID_OFFSET, entry_id)

BuilderV1_entry_id(b, entry_id) ==
    put_i64_to_common_header(b, COMMON_HEADER_ENTRY_ID_OFFSET, entry_id)

BuilderV1_last_confirm_id(b, last_confirm_id) ==
    put_i64_to_common_header(b, COMMON_HEADER_LAC_ID_OFFSET, last_confirm_id)

BuilderV1_kv(b, key, value) == [b EXCEPT !.kv = <<Header_new(key, value)>>]

\* a header setter that puts the new header before the earlier ones
BuilderV1_header_in_front(b, header) == [b EXCEPT !.headers = <<header>> \o @]

BuilderV1_header(b, header) == [b EXCEPT !.headers = Append(@, header)]

NoEntry ==
    [common_header |-> Zeros(COMMON_HEADER_BINARY_SIZE),
     headers |-> <<>>,
     kv |-> Header_new(<<>>, <<>>)]

\* a build that takes an empty kv header when none was set
BuilderV1_build_default_kv(b) ==
    [status |-> "ok",
     entry |-> [common_header |-> b.common_header,
                headers |-> b.headers,
                kv |-> IF b.kv = <<>> THEN Header_new(<<>>, <<>>) ELSE b.kv[1]]]

\* build: expect("missing kv field in entry") panics when kv is None
\* a build that also takes a log_id of 0 for a field that was not set
BuilderV1_build_requires_log_id(b) ==
    IF b.kv = <<>> \/ SubSeq(b.common_header, COMMON_HEADER_LOG_ID_OFFSET + 1,
                             COMMON_HEADER_LOG_ID_OFFSET + 8) = Zeros(8)
    THEN [status |-> "panic", entry |-> NoEntry]
    ELSE [status |-> "ok",
          entry |-> [common_header |-> b.common_header,
                     headers |-> b.headers,
                     kv |-> b.kv[1]]]

BuilderV1_build(b) ==
    IF b.kv = <<>>
    THEN [status |-> "panic", entry |-> NoEntry]
    ELSE [status |-> "ok",
          entry |-> [common_header |-> b.common_header,
                     headers |-> b.headers,
                     kv |-> b.kv[1]]]

(***************************************************************************)
(* EntryV1 (entry/impls_v1.rs): [common_header, headers, kv].              *)
(***************************************************************************)
get_i64_from_common_header(e, offset) ==
    from_le_bytes(copy_slice(SubSeq(e.common_header, offset + 1, offset + 8), 8))

get_i32_from_common_header(e, offset) ==
    from_le_bytes(copy_slice(SubSeq(e.common_header, offset + 1, offset + 4), 4))

\* a conversion that takes every byte for version 1
Magic_try_from_default_v1(value) ==
    [ok |-> TRUE, magic |-> MagicV1]

\* Magic::try_from: [ok, magic]
Magic_try_from(value) ==
    IF value = 1 THEN [ok |-> TRUE, magic |-> MagicV1] ELSE [ok |-> FALSE, magic |-> 0]

EntryV1_magic(e) == Magic_try_from(e.common_header[COMMON_HEADER_MAGIC_OFFSET + 1]).magic
EntryV1_attr(e) == get_i32_from_common_header(e, COMMON_HEADER_ATTR_OFFSET)
EntryV1_log_id(e) == get_i64_from_common_header(e, COMMON_HEADER_LOG_ID_OFFSET)
EntryV1_entry_id(e) == get_i64_from_common_header(e, COMMON_HEADER_ENTRY_ID_OFFSET)
EntryV1_last_confirm_id(e) == get_i64_from_common_header(e, COMMON_HEADER_LAC_ID_OFFSET)
EntryV1_key(e) == e.kv.key
EntryV1_value(e) == e.kv.value
EntryV1_headers(e) == e.headers

RECURSIVE SumHeaderSizes(_)
SumHeaderSizes(hs) ==
    IF hs = <<>> THEN 0
    ELSE length_delimiter_len(Header_binary_size(Head(hs))) + Header_binary_size(Head(hs))
         + SumHeaderSizes(Tail(hs))

\* binary_size without the size delimiter that precedes the kv header
EntryV1_binary_size_no_kv_delimiter(e) ==
    COMMON_HEADER_BINARY_SIZE + SumHeaderSizes(e.headers) + Header_binary_size(e.kv)

EntryV1_binary_size(e) ==
    COMMON_HEADER_BINARY_SIZE + SumHeaderSizes(e.headers)
    + length_delimiter_len(Header_binary_size(e.kv)) + Header_binary_size(e.kv)

RECURSIVE EncodeHeaders(_)
EncodeHeaders(hs) ==
    IF hs = <<>> THEN <<>>
    ELSE encode_length_delimiter(Header_binary_size(Head(hs))) \o Header_encode(Head(hs))
         \o EncodeHeaders(Tail(hs))

EntryV1_encode(e) ==
    e.common_header \o EncodeHeaders(e.headers)
    \o encode_length_delimiter(Header_binary_size(e.kv)) \o Header_encode(e.kv)

(***************************************************************************)
(* EntryV1::read_at and read_at_header.  Each block of the code is an      *)
(* operator from stage state to stage state ([offset, out, ret, panic]),   *)
(* ret meaning that n == buf.len() was found and the call returns.         *)
(***************************************************************************)
\* read_at_header, first block: the size delimiter of the header
ReadAtHeaderDelimiter(header_size, dst_len, st) ==
    IF st.ret THEN st
    ELSE IF usize_lt(st.offset, length_delimiter_len(header_size))
    THEN LET tmp == copy_slice(Drop(encode_length_delimiter(header_size), st.offset),
                               dst_len - Len(st.out))
         IN  IF Len(st.out) + Len(tmp) = dst_len
             THEN [st EXCEPT !.out = st.out \o tmp, !.ret = TRUE]
             ELSE StageOffset([st EXCEPT !.out = st.out \o tmp],
                              st.offset + Len(tmp) - length_delimiter_len(header_size))
    ELSE StageOffset(st, st.offset - length_delimiter_len(header_size))

\* read_at_header, second block, given the result r of header.read_at
ReadAtHeaderJoin(header_size, dst_len, st, r) ==
    IF r.panic THEN StagePanic([st EXCEPT !.out = st.out \o r.out])
    ELSE IF Len(st.out) + Len(r.out) = dst_len
    THEN [st EXCEPT !.out = st.out \o r.out, !.ret = TRUE]
    ELSE StageOffset([st EXCEPT !.out = st.out \o r.out],
                     st.offset + Len(r.out) - header_size)

\* read_at_header, second block: the header itself
ReadAtHeaderBody(header, header_size, dst_len, st) ==
    IF st.ret THEN st
    ELSE IF usize_lt(st.offset, header_size)
    THEN ReadAtHeaderJoin(header_size, dst_len, st,
                          Header_read_at(header, dst_len - Len(st.out), st.offset,
                                         st.overflow_checks))
    ELSE StageOffset(st, st.offset - header_size)

\* EntryV1::read_at_header(header, offset, buf, n) from st = (offset, buf[0..n))
EntryV1_read_at_header(header, dst_len, st) ==
    ReadAtHeaderBody(header, Header_binary_size(header), dst_len,
                     ReadAtHeaderDelimiter(Header_binary_size(header), dst_len, st))

\* the loop over the auxiliary headers, then the kv header, of EntryV1::read_at
RECURSIVE ReadAtHeaders(_, _, _, _)
ReadAtHeaders(hs, kv, dst_len, st) ==
    IF st.ret THEN st
    ELSE IF hs = <<>> THEN EntryV1_read_at_header(kv, dst_len, st)
    ELSE ReadAtHeaders(Tail(hs), kv, dst_len,
                       EntryV1_read_at_header(Head(hs), dst_len, st))

\* a copy of the common header from its first byte, whatever the offset
read_common_header_from_start(e, dst_len, offset) ==
    copy_slice(e.common_header, dst_len)

read_common_header_at_offset(e, dst_len, offset) ==
    copy_slice(Drop(e.common_header, offset), dst_len)

\* EntryV1::read_at, first block: the common header
ReadAtCommonHeader(e, dst_len, st) ==
    IF usize_lt(st.offset, COMMON_HEADER_BINARY_SIZE)
    THEN LET tmp == read_common_header_at_offset(e, dst_len, st.offset)
         IN  IF Len(tmp) = dst_len
             THEN [st EXCEPT !.out = tmp, !.ret = TRUE]
             ELSE StageOffset([st EXCEPT !.out = tmp],
                              st.offset + Len(tmp) - COMMON_HEADER_BINARY_SIZE)
    ELSE StageOffset(st, st.offset - COMMON_HEADER_BINARY_SIZE)

\* EntryV1::read_at(buf, offset): the final stage state; the call returns
\* Len(out) and has stored out in buf[0..Len(out))
EntryV1_read_at(e, dst_len, offset, overflow_checks) ==
    ReadAtHeaders(e.headers, e.kv, dst_len,
                  ReadAtCommonHeader(e, dst_len, Stage0(offset, overflow_checks)))

(***************************************************************************)
(* decode (entry/mod.rs) and EntryV1::decode_without_magic.                *)
(* [status, entry]: status is "ok", an Error variant, or "panic".          *)
(***************************************************************************)
DecodeResult(status, e) == [status |-> status, entry |-> e]

\* a loop that hands Header::decode all the remaining bytes, not the
\* declared size
DecodeHeaders_whole_rest(buf, headers) ==
    IF buf = <<>> THEN [status |-> "ok", headers |-> headers]
    ELSE LET d == decode_length_delimiter(buf)
         IN  IF ~d.ok THEN [status |-> "ProstDecode", headers |-> headers]
             ELSE LET h == Header_decode(d.rest)
                  IN  IF h.status # "ok" THEN [status |-> h.status, headers |-> headers]
                      ELSE [status |-> "ok", headers |-> Append(headers, h.header)]

\* the while loop: [status, headers]
RECURSIVE DecodeHeaders(_, _)
DecodeHeaders(buf, headers) ==
    IF buf = <<>> THEN [status |-> "ok", headers |-> headers]
    ELSE LET d == decode_length_delimiter(buf)
         IN  IF ~d.ok THEN [status |-> "ProstDecode", headers |-> headers]
             ELSE LET length == Min(d.value, Len(d.rest))
                      h == Header_decode(Take(d.rest, length))
                  IN  IF h.status # "ok" THEN [status |-> h.status, headers |-> headers]
                      ELSE DecodeHeaders(Drop(d.rest, length), Append(headers, h.header))

\* decode_without_magic taking the first decoded header, not the last, as kv
EntryV1_decode_without_magic_first_kv(magic, buf) ==
    IF Len(buf) < COMMON_HEADER_BINARY_SIZE - 1
    THEN DecodeResult("panic", NoEntry)
    ELSE LET common_header == <<magic>> \o Take(buf, COMMON_HEADER_BINARY_SIZE - 1)
             hs == DecodeHeaders(Drop(buf, COMMON_HEADER_BINARY_SIZE - 1), <<>>)
         IN  IF hs.status # "ok" THEN DecodeResult(hs.status, NoEntry)
             ELSE IF hs.headers = <<>> THEN DecodeResult("panic", NoEntry)
             ELSE DecodeResult("ok",
                      [common_header |-> common_header,
                       headers |-> Tail(hs.headers),
                       kv |-> Head(hs.headers)])

EntryV1_decode_without_magic(magic, buf) ==
    IF Len(buf) < COMMON_HEADER_BINARY_SIZE - 1
    THEN DecodeResult("panic", NoEntry)
    ELSE LET common_header == <<magic>> \o Take(buf, COMMON_HEADER_BINARY_SIZE - 1)
             hs == DecodeHeaders(Drop(buf, COMMON_HEADER_BINARY_SIZE - 1), <<>>)
         IN  IF hs.status # "ok" THEN DecodeResult(hs.status, NoEntry)
             \* headers.pop().expect("missing kv field in entry")
             ELSE IF hs.headers = <<>> THEN DecodeResult("panic", NoEntry)
             ELSE DecodeResult("ok",
                      [common_header |-> common_header,
                       headers |-> Take(hs.headers, Len(hs.headers) - 1),
                       kv |-> hs.headers[Len(hs.headers)]])

decode(buf) ==
    IF buf = <<>> THEN DecodeResult("panic", NoEntry)
    ELSE LET m == Magic_try_from(Head(buf))
         IN  IF ~m.ok THEN DecodeResult("InvalidMagic", NoEntry)
             ELSE EntryV1_decode_without_magic(m.magic, Tail(buf))

(***************************************************************************)
(* JournalEntryContext (journal/writer.rs): [entry, digest, checksum]; the *)
(* Option digest holds the CRC register, or is empty once taken.           *)
(***************************************************************************)
JournalEntryContext_new(entry) ==
    [entry |-> entry, digest |-> <<CrcInit>>, checksum |-> Zeros(4)]

\* a get_checksum that finalizes a digest it keeps, on every access
JournalEntryContext_get_checksum_keep_digest(ctx) ==
    IF ctx.digest # <<>>
    THEN [ctx EXCEPT !.checksum = copy_slice(CrcFinalize(ctx.digest[1]), 4)]
    ELSE ctx

\* get_checksum: the context after the call; its checksum field is the result
JournalEntryContext_get_checksum(ctx) ==
    IF ctx.digest # <<>>
    THEN [ctx EXCEPT !.checksum = copy_slice(CrcFinalize(ctx.digest[1]), 4),
                     !.digest = <<>>]
    ELSE ctx

\* read_at, first stage: the size delimiter of the entry; the custom copy
\* takes the whole delimiter, whatever the offset
ContextSizeStage(sz, dst_len, st) ==
    customize_copy_slice_with_multi_stage(
        copy_slice(encode_length_delimiter(sz), dst_len - Len(st.out)),
        length_delimiter_len(sz), dst_len, st)

\* read_at, second stage, given the result er of entry.read_at
ContextEntryJoin(sz, dst_len, st, er) ==
    IF er.panic THEN StagePanic(st)
    ELSE customize_copy_slice_with_multi_stage(er.out, sz, dst_len, st)

\* read_at, second stage: the entry
ContextEntryStage(e, sz, dst_len, st) ==
    IF st.ret \/ Len(st.out) = dst_len \/ ~usize_lt(st.offset, sz)
    THEN customize_copy_slice_with_multi_stage(<<>>, sz, dst_len, st)
    ELSE ContextEntryJoin(sz, dst_len, st,
                          EntryV1_read_at(e, dst_len - Len(st.out), st.offset,
                                          st.overflow_checks))

\* read_at, last statement, given the context after get_checksum
ContextChecksumJoin(dst_len, st, ctx2) ==
    IF ~usize_lt(st.offset, 5)
    THEN [out |-> st.out, ctx |-> ctx2, panic |-> TRUE]
    ELSE [out |-> st.out \o copy_slice(Drop(ctx2.checksum, st.offset),
                                       dst_len - Len(st.out)),
          ctx |-> ctx2, panic |-> FALSE]

\* read_at, last statement: the checksum
ContextChecksumStage(ctx, dst_len, st) ==
    IF st.ret THEN [out |-> st.out, ctx |-> ctx, panic |-> st.panic]
    ELSE ContextChecksumJoin(dst_len, st, JournalEntryContext_get_checksum(ctx))

\* read_at(buf, offset): [out, ctx, panic]; the call returns Len(out), has
\* stored out in buf[0..Len(out)) and leaves the context ctx
JournalEntryContext_read_at(ctx, dst_len, offset, overflow_checks) ==
    ContextChecksumStage(ctx, dst_len,
        ContextEntryStage(ctx.entry, EntryV1_binary_size(ctx.entry), dst_len,
            ContextSizeStage(EntryV1_binary_size(ctx.entry), dst_len,
                             Stage0(offset, overflow_checks))))

(***************************************************************************)
(* Inputs.                                                                 *)
(***************************************************************************)
\* n bytes b+1, b+2, ...: every position of a string holds a different byte
Fill(n, b) == [i \in 1..n |-> (b + i) % 256]

ShortKeys == {Fill(n, 64) : n \in 0..MaxShort}
LongKeys == {Fill(LongKey, 64)}
Values == {Fill(n, 160) : n \in 0..MaxShort}

\* an entry made by the builder calls of the tests, in their order
MkEntry(attr, log_id, entry_id, last_confirm_id, key, value, hs) ==
    LET b1 == BuilderV1_log_id(BuilderV1_new, log_id)
        b2 == BuilderV1_entry_id(b1, entry_id)
        b3 == BuilderV1_attr(b2, attr)
        b4 == BuilderV1_last_confirm_id(b3, last_confirm_id)
        b5 == BuilderV1_kv(b4, key, value)
        b6 == [b5 EXCEPT !.headers = hs]
    IN  BuilderV1_build(b6).entry

\* "key" and "value" of the tests
KeyBytes == <<107, 101, 121>>
ValueBytes == <<118, 97, 108, 117, 101>>

\* the entry of the tests: log_id 1, entry_id 2, default attr, last_confirm_id 3,
\* kv (key, value) and one auxiliary header (key, value)
ScenarioEntry ==
    MkEntry(0, 1, 2, 3, KeyBytes, ValueBytes, <<Header_new(KeyBytes, ValueBytes)>>)

\* the entries appended to the journal: the smallest entry, the entry of the
\* tests, an entry whose size delimiter takes two bytes, and one whose key
\* delimiter does too
WriterEntries ==
    { MkEntry(0, 1, 2, 3, <<>>, <<>>, <<>>),
      ScenarioEntry,
      MkEntry(-2, 1, 2, 3, <<>>, Fill(LongKey, 160), <<>>),
      MkEntry(-2, 1, 2, 3, Fill(LongKey, 64), Fill(1, 160), <<>>) }

\* the scalar values the builder's setters are called with
AttrInputs == {-2, 5}
LogIdInputs == {-1, 300}
EntryIdInputs == {2}
LastConfirmIdInputs == {3}
\* the kv and the auxiliary headers the builder is called with
KvInputs ==
    {<<key, value>> : key \in {<<>>, Fill(MaxShort, 64)},
                      value \in {<<>>, Fill(MaxShort, 160)}}
    \cup {<<key, Fill(MaxShort, 160)>> : key \in LongKeys}
AuxHeaders == {Header_new(<<>>, <<>>), Header_new(Fill(1, 64), Fill(MaxShort, 160))}
\* the headers read and decoded on their own
HeaderInputs == {Header_new(k, v) : k \in ShortKeys \cup LongKeys, v \in Values}

(***************************************************************************)
(* The earlier revision, src/src/entry: Header with key and value both     *)
(* length-prefixed (header.rs), Entry with plain fields written big-endian *)
(* and one outer length delimiter around kv and the auxiliary headers, and *)
(* EntryBuilder (mod.rs).  Option fields are <<>> (None) or <<v>>.         *)
(***************************************************************************)
RECURSIVE to_be_bytes(_, _)
\* BufMut::put_i32 / put_i64: the w big-endian bytes of v (two's complement)
to_be_bytes(v, w) ==
    IF w = 0 THEN <<>> ELSE to_be_bytes(v \div 256, w - 1) \o <<v % 256>>

RECURSIVE from_be_bytes_unsigned(_)
from_be_bytes_unsigned(bs) ==
    IF bs = <<>> THEN 0
    ELSE bs[Len(bs)] + 256 * from_be_bytes_unsigned(Take(bs, Len(bs) - 1))

\* Buf::get_i32 / get_i64: the signed value of big-endian bytes
from_be_bytes(bs) ==
    IF bs[1] >= 128
    THEN from_be_bytes_unsigned(<<bs[1] - 256>> \o Tail(bs))
    ELSE from_be_bytes_unsigned(bs)

Header0_new(key, value) == [key |-> key, value |-> value]

Header0_estimate_size(h) ==
    length_delimiter_len(Len(h.key)) + length_delimiter_len(Len(h.value))
    + Len(h.key) + Len(h.value)

Header0_encode(h) ==
    encode_length_delimiter(Len(h.key)) \o h.key
    \o encode_length_delimiter(Len(h.value)) \o h.value

\* the value half of Header::decode, given the key and the bytes after it
Header0DecodeValue(key, buf) ==
    LET d == decode_length_delimiter(buf)
        none == Header0_new(<<>>, <<>>)
    IN  IF ~d.ok THEN [status |-> "ProstDecode", header |-> none, rest |-> <<>>]
        ELSE IF d.value > Len(d.rest) THEN [status |-> "panic", header |-> none, rest |-> <<>>]
        ELSE [status |-> "ok",
              header |-> Header0_new(key, Take(d.rest, d.value)),
              rest |-> Drop(d.rest, d.value)]

\* a decode that takes all bytes after the key for the value
Header0_decode_value_is_rest(buf) ==
    LET d == decode_length_delimiter(buf)
        none == Header0_new(<<>>, <<>>)
    IN  IF ~d.ok THEN [status |-> "ProstDecode", header |-> none, rest |-> <<>>]
        ELSE IF d.value > Len(d.rest) THEN [status |-> "panic", header |-> none, rest |-> <<>>]
        ELSE [status |-> "ok",
              header |-> Header0_new(Take(d.rest, d.value), Drop(d.rest, d.value)),
              rest |-> <<>>]

\* Header::decode(buf): [status, header, rest], rest being what buf still holds
Header0_decode(buf) ==
    LET d == decode_length_delimiter(buf)
        none == Header0_new(<<>>, <<>>)
    IN  IF ~d.ok THEN [status |-> "ProstDecode", header |-> none, rest |-> <<>>]
        ELSE IF d.value > Len(d.rest) THEN [status |-> "panic", header |-> none, rest |-> <<>>]
        ELSE Header0DecodeValue(Take(d.rest, d.value), Drop(d.rest, d.value))

EntryBuilder_default ==
    [log_id |-> <<>>, entry_id |-> <<>>, attr |-> 0, last_confirm |-> <<>>,
     kv |-> <<>>, headers |-> <<>>]

EntryBuilder_attr(b, attr) == [b EXCEPT !.attr = attr]
EntryBuilder_log_id(b, log_id) == [b EXCEPT !.log_id = <<log_id>>]
EntryBuilder_entry_id(b, entry_id) == [b EXCEPT !.entry_id = <<entry_id>>]
EntryBuilder_last_confirm(b, last_confirm) == [b EXCEPT !.last_confirm = <<last_confirm>>]
EntryBuilder_kv(b, key, value) == [b EXCEPT !.kv = <<Header0_new(key, value)>>]
EntryBuilder_header(b, header) == [b EXCEPT !.headers = Append(@, header)]

NoEntry0 ==
    [magic |-> 0, attr |-> 0, log_id |-> 0, entry_id |-> 0, last_confirm |-> 0,
     kv |-> Header0_new(<<>>, <<>>), headers |-> <<>>]

\* EntryBuilder::build: every Option is unwrapped
EntryBuilder_build(b) ==
    IF b.log_id = <<>> \/ b.entry_id = <<>> \/ b.last_confirm = <<>> \/ b.kv = <<>>
    THEN [status |-> "panic", entry |-> NoEntry0]
    ELSE [status |-> "ok",
          entry |-> [magic |-> MagicV1, attr |-> b.attr, log_id |-> b.log_id[1],
                     entry_id |-> b.entry_id[1], last_confirm |-> b.last_confirm[1],
                     kv |-> b.kv[1], headers |-> b.headers]]

RECURSIVE SumEstimateSizes(_)
SumEstimateSizes(hs) ==
    IF hs = <<>> THEN 0 ELSE Header0_estimate_size(Head(hs)) + SumEstimateSizes(Tail(hs))

RECURSIVE EncodeHeaders0(_)
EncodeHeaders0(hs) ==
    IF hs = <<>> THEN <<>> ELSE Header0_encode(Head(hs)) \o EncodeHeaders0(Tail(hs))

\* Entry::encode: the five fields, the size of kv and headers, kv, headers
Entry_encode(e) ==
    <<e.magic>> \o to_be_bytes(e.attr, 4) \o to_be_bytes(e.log_id, 8)
    \o to_be_bytes(e.entry_id, 8) \o to_be_bytes(e.last_confirm, 8)
    \o encode_length_delimiter(Header0_estimate_size(e.kv) + SumEstimateSizes(e.headers))
    \o Header0_encode(e.kv) \o EncodeHeaders0(e.headers)

\* the loop `while buf.has_remaining()` of Entry::decode
RECURSIVE DecodeHeaders0(_, _)
DecodeHeaders0(buf, headers) ==
    IF buf = <<>> THEN [status |-> "ok", headers |-> headers]
    ELSE LET h == Header0_decode(buf)
         IN  IF h.status # "ok" THEN [status |-> h.status, headers |-> headers]
             ELSE DecodeHeaders0(h.rest, Append(headers, h.header))

\* Entry::decode after the five fields, given the decoded kv header
EntryDecodeJoin(buf, kv) ==
    IF kv.status # "ok" THEN [status |-> kv.status, entry |-> NoEntry0]
    ELSE LET hs == DecodeHeaders0(kv.rest, <<>>)
         IN  IF hs.status # "ok" THEN [status |-> hs.status, entry |-> NoEntry0]
             ELSE [status |-> "ok",
                   entry |-> [magic |-> MagicV1,
                              attr |-> from_be_bytes(SubSeq(buf, 2, 5)),
                              log_id |-> from_be_bytes(SubSeq(buf, 6, 13)),
                              entry_id |-> from_be_bytes(SubSeq(buf, 14, 21)),
                              last_confirm |-> from_be_bytes(SubSeq(buf, 22, 29)),
                              kv |-> kv.header,
                              headers |-> hs.headers]]

\* Entry::decode(buf): get_u8 and Magic::from, get_i32, get_i64 three times
\* (each panics on a short buffer, Magic::from on an unknown byte), the
\* length delimiter, buf.take(length), the kv header, the other headers
Entry_decode(buf) ==
    IF Len(buf) < 29 \/ buf[1] # 1 THEN [status |-> "panic", entry |-> NoEntry0]
    ELSE LET d == decode_length_delimiter(Drop(buf, 29))
         IN  IF ~d.ok THEN [status |-> "ProstDecode", entry |-> NoEntry0]
             ELSE EntryDecodeJoin(buf, Header0_decode(Take(d.rest, Min(d.value, Len(d.rest)))))

\* the headers and kv pairs given to the EntryBuilder
Headers0 ==
    {Header0_new(<<>>, <<>>),
     Header0_new(Fill(1, 64), Fill(LongKey, 160)),
     Header0_new(Fill(LongKey, 64), Fill(MaxShort, 160))}
Attr0Inputs == {-2, 5}
LogId0Inputs == {-1, 300}

(***************************************************************************)
(* State.                                                                  *)
(***************************************************************************)
VARIABLES
    \* JournalWriterImpl: [file, offset, buffer, size]; file is the byte
    \* string written to the sink so far
    writer,
    \* append_entry in progress: "idle", "loop" or "panicked"
    a_pc,
    \* append_entry's entry_context and its local offset
    a_context,
    a_offset,
    \* history of the writer: frames of the entries whose append_entry
    \* returned Ok, the number of append_entry calls and of failed sink
    \* calls, the call in progress or the last call that returned with its
    \* result, and the read_at calls of the last append_entry (their number,
    \* the last destination length and result, the bytes they returned)
    g_frames,
    g_appends,
    g_fails,
    g_last,
    g_reads,
    g_dst_len,
    g_k,
    g_out,
    g_size0,    \* size() when the current append_entry was called
    g_prev,     \* the context the previous append_entry call left
    \* BuilderV1 under construction and the phase of its use:
    \* "building", "built" or "panicked"
    builder,
    \* the arguments the setters of the builder were last called with
    b_args,
    e_phase,
    \* the entry built
    entry,
    \* a resumable read of the entry: next offset, bytes returned so far,
    \* whether a call returned 0, and whether a call was made
    r_offset,
    r_out,
    r_done,
    r_calls,
    r_last,     \* the last read_at call made on its own: [dst_len, offset, out, panic, called]
    \* a decode call: its input buffer (or <<>> before the call), its result
    d_input,
    d_result,
    \* a Header, the last read_at call on it and the last decode call
    h_header,
    h_call,
    h_decode,
    \* the earlier revision (src/src/entry): the EntryBuilder and the phase
    \* of its use, the Entry built, and the result of decoding its encoding
    o_builder,
    o_phase,
    o_entry,
    o_decoded

wvars == <<writer, a_pc, a_context, a_offset, g_frames, g_appends, g_fails, g_last,
           g_reads, g_dst_len, g_k, g_out, g_size0, g_prev>>
evars == <<builder, b_args, e_phase, entry, r_offset, r_out, r_done, r_calls, r_last, d_input, d_result>>
hvars == <<h_header, h_call, h_decode>>
ovars == <<o_builder, o_phase, o_entry, o_decoded>>
vars == <<wvars, evars, hvars, ovars>>

NoContext == JournalEntryContext_new(NoEntry)
NoCall == [dst_len |-> 0, offset |-> 0, out |-> <<>>, panic |-> FALSE, called |-> FALSE]
NoDecode == [status |-> "none", entry |-> NoEntry]
NoHeaderDecode == [input |-> <<>>, status |-> "none", header |-> Header_new(<<>>, <<>>)]

\* the parts of the state a specification does not use
WIdle ==
    /\ writer = [file |-> <<>>, offset |-> 0, buffer |-> <<>>, size |-> 0]
    /\ a_pc = "idle" /\ a_context = NoContext /\ a_offset = 0
    /\ g_frames = <<>> /\ g_appends = 0 /\ g_fails = 0
    /\ g_last = [op |-> "none", result |-> "none"]
    /\ g_reads = 0 /\ g_dst_len = -1 /\ g_k = -1 /\ g_out = <<>> /\ g_size0 = 0
    /\ g_prev = NoContext

NoArgs ==
    [attr |-> 0, log_id |-> 0, entry_id |-> 0, last_confirm_id |-> 0,
     kv |-> <<>>, headers |-> <<>>]

EIdle ==
    /\ builder = BuilderV1_new /\ b_args = NoArgs
    /\ e_phase = "unused" /\ entry = NoEntry
    /\ r_offset = 0 /\ r_out = <<>> /\ r_done = FALSE /\ r_calls = FALSE
    /\ r_last = NoCall
    /\ d_input = <<>> /\ d_result = NoDecode

HIdle ==
    /\ h_header = Header_new(<<>>, <<>>) /\ h_call = NoCall /\ h_decode = NoHeaderDecode

NoDecode0 == [status |-> "none", entry |-> NoEntry0]

OIdle ==
    /\ o_builder = EntryBuilder_default /\ o_phase = "unused"
    /\ o_entry = NoEntry0 /\ o_decoded = NoDecode0

(***************************************************************************)
(* JournalWriterImpl (journal/writer.rs).                                  *)
(***************************************************************************)
\* flush that resets the cursor and writes nothing to the sink
JournalWriterImpl_flush_without_write(w) ==
    [w EXCEPT !.offset = 0]

\* flush that writes the buffer to the sink and keeps the cursor
JournalWriterImpl_flush_keep_offset(w) ==
    [w EXCEPT !.file = w.file \o Take(w.buffer, w.offset)]

\* flush with a sink write that succeeds
JournalWriterImpl_flush(w) ==
    [w EXCEPT !.file = w.file \o Take(w.buffer, w.offset), !.offset = 0]

\* flush with a sink write that fails after `written` bytes: write_all gives
\* no guarantee about the bytes written before the error; offset is kept
JournalWriterImpl_flush_err(w, written) ==
    [w EXCEPT !.file = w.file \o Take(w.buffer, written)]

\* append_entry_into_buffer that returns a running offset one past k + offset
AppendEntryIntoBufferJoin_offset_past(w, offset, r) ==
    [w |-> [w EXCEPT !.buffer = StoreAt(w.buffer, w.offset, r.out),
                     !.offset = w.offset + Len(r.out),
                     !.size = w.size + Len(r.out)],
     ctx |-> r.ctx,
     offset |-> Len(r.out) + offset + 1,
     done |-> Len(r.out) = 0,
     dst_len |-> Len(w.buffer) - w.offset,
     k |-> Len(r.out),
     out |-> r.out,
     panic |-> r.panic]

\* append_entry_into_buffer, given the result r of entry_context.read_at:
\* [w, ctx, offset, done, dst_len, k, out, panic]
AppendEntryIntoBufferJoin(w, offset, r) ==
    [w |-> [w EXCEPT !.buffer = StoreAt(w.buffer, w.offset, r.out),
                     !.offset = w.offset + Len(r.out),
                     !.size = w.size + Len(r.out)],
     ctx |-> r.ctx,
     offset |-> Len(r.out) + offset,
     done |-> Len(r.out) = 0,
     dst_len |-> Len(w.buffer) - w.offset,
     k |-> Len(r.out),
     out |-> r.out,
     panic |-> r.panic]

\* append_entry_into_buffer that hands read_at a slice as long as the whole
\* buffer instead of buffer[offset..]
JournalWriterImpl_append_entry_into_buffer_whole_len(w, ctx, offset, overflow_checks) ==
    AppendEntryIntoBufferJoin(w, offset,
        JournalEntryContext_read_at(ctx, Len(w.buffer), offset, overflow_checks))

\* append_entry_into_buffer(entry_context, offset)
JournalWriterImpl_append_entry_into_buffer(w, ctx, offset, overflow_checks) ==
    AppendEntryIntoBufferJoin(w, offset,
        JournalEntryContext_read_at(ctx, Len(w.buffer) - w.offset, offset,
                                    overflow_checks))

\* the frame of an entry: size delimiter, encoded entry, 4 checksum bytes
Frame(e, checksum) ==
    encode_length_delimiter(EntryV1_binary_size(e)) \o EntryV1_encode(e) \o checksum

\* append_entry, up to the loop: the context is made, offset = 0
append_entry_begin(e) ==
    /\ a_pc = "idle"
    /\ g_appends < MaxAppends
    /\ a_pc' = "loop"
    /\ a_context' = JournalEntryContext_new(e)
    /\ a_offset' = 0
    /\ g_appends' = g_appends + 1
    /\ g_reads' = 0 /\ g_dst_len' = -1 /\ g_k' = -1 /\ g_out' = <<>>
    /\ g_size0' = writer.size
    /\ g_prev' = a_context
    /\ g_last' = [op |-> "append_entry", result |-> "running"]
    /\ UNCHANGED <<writer, g_frames, g_fails>>

\* a loop head that flushes whenever the buffer holds a byte
FlushIfNotEmpty(w) ==
    IF w.offset > 0 THEN JournalWriterImpl_flush(w) ELSE w

\* the writer after the flush, if any, at the head of a loop iteration
FlushIfFull(w) ==
    IF Len(w.buffer) = w.offset THEN JournalWriterImpl_flush(w) ELSE w

\* the rest of a loop iteration, given the result r of append_entry_into_buffer
AppendEntryLoopJoin(r) ==
    /\ writer' = r.w
    /\ a_context' = r.ctx
    /\ a_offset' = r.offset
    /\ g_reads' = g_reads + 1
    /\ g_dst_len' = r.dst_len
    /\ g_k' = r.k
    /\ g_out' = g_out \o r.out
    /\ IF r.panic
       THEN /\ a_pc' = "panicked"
            /\ UNCHANGED <<g_frames, g_last>>
       ELSE IF r.done
       THEN /\ a_pc' = "idle"
            /\ g_frames' = g_frames \o Frame(r.ctx.entry, r.ctx.checksum)
            /\ g_last' = [op |-> "append_entry", result |-> "Ok"]
       ELSE /\ a_pc' = "loop"
            /\ UNCHANGED <<g_frames, g_last>>

\* one iteration of the loop of append_entry whose flush, if any, succeeds,
\* in a build with or without overflow checks
append_entry_loop ==
    /\ a_pc = "loop"
    /\ \E overflow_checks \in BOOLEAN :
           AppendEntryLoopJoin(
               JournalWriterImpl_append_entry_into_buffer(FlushIfFull(writer),
                                                          a_context, a_offset,
                                                          overflow_checks))
    /\ UNCHANGED <<g_appends, g_fails, g_size0, g_prev>>

\* an iteration whose flush fails: append_entry returns the I/O error
append_entry_flush_err(written) ==
    /\ a_pc = "loop"
    /\ Len(writer.buffer) = writer.offset
    /\ written < writer.offset
    /\ g_fails < MaxFails
    /\ Len(writer.file) < FailWindow
    /\ writer' = JournalWriterImpl_flush_err(writer, written)
    /\ a_pc' = "idle"
    /\ g_fails' = g_fails + 1
    /\ g_last' = [op |-> "append_entry", result |-> "Io"]
    /\ UNCHANGED <<a_context, a_offset, g_frames, g_appends, g_reads,
                   g_dst_len, g_k, g_out, g_size0, g_prev>>

\* a sync that flushes the buffer before the barrier
JournalWriterImpl_sync_with_flush(w) ==
    JournalWriterImpl_flush(w)

\* the writer after sync: sync_data is called on the sink and no field of
\* the writer is assigned
JournalWriterImpl_sync(w) ==
    w

\* sync: file.sync_data() succeeds
sync ==
    /\ a_pc = "idle"
    /\ writer' = JournalWriterImpl_sync(writer)
    /\ g_last' = [op |-> "sync", result |-> "Ok"]
    /\ UNCHANGED <<a_pc, a_context, a_offset, g_frames, g_appends, g_fails,
                   g_reads, g_dst_len, g_k, g_out, g_size0, g_prev>>

\* sync: file.sync_data() fails
sync_err ==
    /\ a_pc = "idle"
    /\ g_fails < MaxFails
    /\ g_fails' = g_fails + 1
    /\ g_last' = [op |-> "sync", result |-> "Io"]
    /\ UNCHANGED <<writer, a_pc, a_context, a_offset, g_frames, g_appends,
                   g_reads, g_dst_len, g_k, g_out, g_size0, g_prev>>

WInit ==
    /\ writer \in {[file |-> <<>>, offset |-> 0, buffer |-> Zeros(c), size |-> 0] :
                       c \in 0..MaxCap}
    /\ a_pc = "idle" /\ a_context = NoContext /\ a_offset = 0
    /\ g_frames = <<>> /\ g_appends = 0 /\ g_fails = 0
    /\ g_last = [op |-> "none", result |-> "none"]
    /\ g_reads = 0 /\ g_dst_len = -1 /\ g_k = -1 /\ g_out = <<>> /\ g_size0 = 0
    /\ g_prev = NoContext

Init == WInit /\ EIdle /\ HIdle /\ OIdle

Next ==
    \/ (\E e \in WriterEntries : append_entry_begin(e)) /\ UNCHANGED <<evars, hvars, ovars>>
    \/ append_entry_loop /\ UNCHANGED <<evars, hvars, ovars>>
    \/ (\E written \in 0..MaxCap : append_entry_flush_err(written))
           /\ UNCHANGED <<evars, hvars, ovars>>
    \/ sync /\ UNCHANGED <<evars, hvars, ovars>>
    \/ sync_err /\ UNCHANGED <<evars, hvars, ovars>>

Spec == Init /\ [][Next]_vars

\* The writer with a sink that never fails.  append_entry is sequential
\* code: once called, its loop keeps taking iterations until it returns.
NextLive ==
    \/ (\E e \in WriterEntries : append_entry_begin(e)) /\ UNCHANGED <<evars, hvars, ovars>>
    \/ append_entry_loop /\ UNCHANGED <<evars, hvars, ovars>>
    \/ sync /\ UNCHANGED <<evars, hvars, ovars>>

\* A step of the loop of append_entry: the loop action has no guard besides
\* a_pc = "loop" and is the only action that counts a read_at call, so this
\* is enabled exactly when append_entry_loop is and taken exactly when it is.
append_entry_iteration ==
    a_pc = "loop" /\ g_reads' = g_reads + 1

SpecLive ==
    Init /\ [][NextLive]_vars /\ WF_g_reads(append_entry_iteration)

(***************************************************************************)
(* Building an entry, then reading it with read_at or decoding a buffer    *)
(* made from its encoding.                                                 *)
(***************************************************************************)
b_attr(attr) ==
    /\ e_phase = "building"
    /\ builder' = BuilderV1_attr(builder, attr)
    /\ b_args' = [b_args EXCEPT !.attr = attr]
    /\ UNCHANGED <<e_phase, entry, r_offset, r_out, r_done, r_calls, r_last, d_input, d_result>>

b_log_id(log_id) ==
    /\ e_phase = "building"
    /\ builder' = BuilderV1_log_id(builder, log_id)
    /\ b_args' = [b_args EXCEPT !.log_id = log_id]
    /\ UNCHANGED <<e_phase, entry, r_offset, r_out, r_done, r_calls, r_last, d_input, d_result>>

b_entry_id(entry_id) ==
    /\ e_phase = "building"
    /\ builder' = BuilderV1_entry_id(builder, entry_id)
    /\ b_args' = [b_args EXCEPT !.entry_id = entry_id]
    /\ UNCHANGED <<e_phase, entry, r_offset, r_out, r_done, r_calls, r_last, d_input, d_result>>

b_last_confirm_id(last_confirm_id) ==
    /\ e_phase = "building"
    /\ builder' = BuilderV1_last_confirm_id(builder, last_confirm_id)
    /\ b_args' = [b_args EXCEPT !.last_confirm_id = last_confirm_id]
    /\ UNCHANGED <<e_phase, entry, r_offset, r_out, r_done, r_calls, r_last, d_input, d_result>>

b_kv(key, value) ==
    /\ e_phase = "building"
    /\ builder' = BuilderV1_kv(builder, key, value)
    /\ b_args' = [b_args EXCEPT !.kv = <<[key |-> key, value |-> value]>>]
    /\ UNCHANGED <<e_phase, entry, r_offset, r_out, r_done, r_calls, r_last, d_input, d_result>>

b_header(header) ==
    /\ e_phase = "building"
    /\ Len(builder.headers) < MaxHeaders
    /\ builder' = BuilderV1_header(builder, header)
    /\ b_args' = [b_args EXCEPT !.headers = Append(@, header)]
    /\ UNCHANGED <<e_phase, entry, r_offset, r_out, r_done, r_calls, r_last, d_input, d_result>>

\* build, given its result
BuildJoin(r) ==
    /\ e_phase' = IF r.status = "ok" THEN "built" ELSE "panicked"
    /\ entry' = r.entry

b_build ==
    /\ e_phase = "building"
    /\ BuildJoin(BuilderV1_build(builder))
    /\ UNCHANGED <<builder, b_args, r_offset, r_out, r_done, r_calls, r_last, d_input, d_result>>

\* the buffer lengths of the read_at calls on an entry of the given size
StepLens(binary_size) == (1..MaxStep) \cup {binary_size + 1}

\* one call of a resumable read, given its result
ReadAtJoin(r) ==
    /\ r_out' = r_out \o r.out
    /\ r_offset' = r_offset + Len(r.out)
    /\ r_done' = (Len(r.out) = 0)
    /\ r_calls' = TRUE

\* one call entry.read_at(buf, offset) of a resumable read, Len(buf) = dst_len
e_read_at(dst_len) ==
    /\ e_phase = "built"
    /\ ~r_done
    /\ d_result.status = "none"
    /\ \E overflow_checks \in BOOLEAN :
           ReadAtJoin(EntryV1_read_at(entry, dst_len, r_offset, overflow_checks))
    /\ UNCHANGED <<builder, b_args, e_phase, entry, r_last, d_input, d_result>>

\* the buffers decoded: the encoding of the entry, its common header alone,
\* and the encoding with another magic byte
DecodeInputs(encoded) ==
    { encoded,
      Take(encoded, COMMON_HEADER_BINARY_SIZE),
      <<0>> \o Tail(encoded),
      <<2>> \o Tail(encoded),
      <<255>> }

e_decode(buf) ==
    /\ e_phase = "built"
    /\ r_calls = FALSE
    /\ d_result.status = "none"
    /\ d_input' = buf
    /\ d_result' = decode(buf)
    /\ UNCHANGED <<builder, b_args, e_phase, entry, r_offset, r_out, r_done, r_calls, r_last>>

EInit ==
    /\ builder = BuilderV1_new /\ b_args = NoArgs
    /\ e_phase = "building" /\ entry = NoEntry
    /\ r_offset = 0 /\ r_out = <<>> /\ r_done = FALSE /\ r_calls = FALSE
    /\ r_last = NoCall
    /\ d_input = <<>> /\ d_result = NoDecode

InitEntry == EInit /\ WIdle /\ HIdle /\ OIdle

NextEntry ==
    \/ (\E attr \in AttrInputs : b_attr(attr)) /\ UNCHANGED <<wvars, hvars, ovars>>
    \/ (\E log_id \in LogIdInputs : b_log_id(log_id)) /\ UNCHANGED <<wvars, hvars, ovars>>
    \/ (\E entry_id \in EntryIdInputs : b_entry_id(entry_id)) /\ UNCHANGED <<wvars, hvars, ovars>>
    \/ (\E last_confirm_id \in LastConfirmIdInputs : b_last_confirm_id(last_confirm_id))
           /\ UNCHANGED <<wvars, hvars, ovars>>
    \/ (\E kv \in KvInputs : b_kv(kv[1], kv[2])) /\ UNCHANGED <<wvars, hvars, ovars>>
    \/ (\E header \in AuxHeaders : b_header(header)) /\ UNCHANGED <<wvars, hvars, ovars>>
    \/ b_build /\ UNCHANGED <<wvars, hvars, ovars>>
    \/ (\E dst_len \in StepLens(EntryV1_binary_size(entry)) : e_read_at(dst_len))
           /\ UNCHANGED <<wvars, hvars, ovars>>
    \/ (\E buf \in DecodeInputs(EntryV1_encode(entry)) : e_decode(buf))
           /\ UNCHANGED <<wvars, hvars, ovars>>

SpecEntry == InitEntry /\ [][NextEntry]_vars

(***************************************************************************)
(* EntryV1::read_at called once, at any offset, on a built entry.          *)
(***************************************************************************)
\* the entries read: those appended to the journal and one with two
\* auxiliary headers, an empty one and one with a 128-byte key
ReadEntries ==
    WriterEntries
    \cup {MkEntry(5, 300, 2, 3, Fill(1, 64), Fill(MaxShort, 160),
                  <<Header_new(<<>>, <<>>), Header_new(Fill(LongKey, 64), Fill(1, 160))>>)}

\* one call, given its arguments and its result r
ReadOnceJoin(dst_len, offset, r) ==
    r_last' = [dst_len |-> dst_len, offset |-> offset, out |-> r.out,
               panic |-> r.panic, called |-> TRUE]

\* entry.read_at(buf, offset) with Len(buf) = dst_len
e_read_at_once(dst_len, offset) ==
    /\ e_phase = "built"
    /\ ~r_last.called
    /\ \E overflow_checks \in BOOLEAN :
           ReadOnceJoin(dst_len, offset,
                        EntryV1_read_at(entry, dst_len, offset, overflow_checks))
    /\ UNCHANGED <<builder, b_args, e_phase, entry, r_offset, r_out, r_done, r_calls,
                   d_input, d_result>>

InitRead ==
    /\ entry \in ReadEntries
    /\ e_phase = "built"
    /\ builder = BuilderV1_new /\ b_args = NoArgs
    /\ r_offset = 0 /\ r_out = <<>> /\ r_done = FALSE /\ r_calls = FALSE
    /\ r_last = NoCall
    /\ d_input = <<>> /\ d_result = NoDecode
    /\ WIdle /\ HIdle /\ OIdle

NextRead ==
    (\E dst_len \in (0..MaxStep) \cup {EntryV1_binary_size(entry) + 1},
        offset \in 0..(EntryV1_binary_size(entry) + 2) :
            e_read_at_once(dst_len, offset)) /\ UNCHANGED <<wvars, hvars, ovars>>

SpecRead == InitRead /\ [][NextRead]_vars

(***************************************************************************)
(* The earlier revision: EntryBuilder calls in any order, build, then      *)
(* Entry::decode of the bytes of Entry::encode.                            *)
(***************************************************************************)
o_attr(attr) ==
    /\ o_phase = "building"
    /\ o_builder' = EntryBuilder_attr(o_builder, attr)
    /\ UNCHANGED <<o_phase, o_entry, o_decoded>>

o_log_id(log_id) ==
    /\ o_phase = "building"
    /\ o_builder' = EntryBuilder_log_id(o_builder, log_id)
    /\ UNCHANGED <<o_phase, o_entry, o_decoded>>

o_entry_id(entry_id) ==
    /\ o_phase = "building"
    /\ o_builder' = EntryBuilder_entry_id(o_builder, entry_id)
    /\ UNCHANGED <<o_phase, o_entry, o_decoded>>

o_last_confirm(last_confirm) ==
    /\ o_phase = "building"
    /\ o_builder' = EntryBuilder_last_confirm(o_builder, last_confirm)
    /\ UNCHANGED <<o_phase, o_entry, o_decoded>>

o_kv(key, value) ==
    /\ o_phase = "building"
    /\ o_builder' = EntryBuilder_kv(o_builder, key, value)
    /\ UNCHANGED <<o_phase, o_entry, o_decoded>>

o_header(header) ==
    /\ o_phase = "building"
    /\ Len(o_builder.headers) < MaxHeaders
    /\ o_builder' = EntryBuilder_header(o_builder, header)
    /\ UNCHANGED <<o_phase, o_entry, o_decoded>>

\* build, given its result
BuildJoin0(r) ==
    /\ o_phase' = IF r.status = "ok" THEN "built" ELSE "panicked"
    /\ o_entry' = r.entry

o_build ==
    /\ o_phase = "building"
    /\ BuildJoin0(EntryBuilder_build(o_builder))
    /\ UNCHANGED <<o_builder, o_decoded>>

\* entry.encode(&mut buf) and Entry::decode(buf.freeze())
o_encode_decode ==
    /\ o_phase = "built"
    /\ o_decoded.status = "none"
    /\ o_decoded' = Entry_decode(Entry_encode(o_entry))
    /\ UNCHANGED <<o_builder, o_phase, o_entry>>

OInit ==
    /\ o_builder = EntryBuilder_default /\ o_phase = "building"
    /\ o_entry = NoEntry0 /\ o_decoded = NoDecode0

InitOld == OInit /\ WIdle /\ EIdle /\ HIdle

NextOld ==
    \/ (\E attr \in Attr0Inputs : o_attr(attr)) /\ UNCHANGED <<wvars, evars, hvars>>
    \/ (\E log_id \in LogId0Inputs : o_log_id(log_id)) /\ UNCHANGED <<wvars, evars, hvars>>
    \/ (\E entry_id \in EntryIdInputs : o_entry_id(entry_id))
           /\ UNCHANGED <<wvars, evars, hvars>>
    \/ (\E last_confirm \in LastConfirmIdInputs : o_last_confirm(last_confirm))
           /\ UNCHANGED <<wvars, evars, hvars>>
    \/ (\E kv \in KvInputs : o_kv(kv[1], kv[2])) /\ UNCHANGED <<wvars, evars, hvars>>
    \/ (\E header \in Headers0 : o_header(header)) /\ UNCHANGED <<wvars, evars, hvars>>
    \/ o_build /\ UNCHANGED <<wvars, evars, hvars>>
    \/ o_encode_decode /\ UNCHANGED <<wvars, evars, hvars>>

SpecOld == InitOld /\ [][NextOld]_vars

(***************************************************************************)
(* Calls on a Header alone: read_at at any offset, and decode.             *)
(***************************************************************************)
\* a call, given the stage state r it ends in
HeaderReadAtJoin(dst_len, offset, r) ==
    h_call' = [dst_len |-> dst_len, offset |-> offset, out |-> r.out,
               panic |-> r.panic, called |-> TRUE]

h_read_at(dst_len, offset) ==
    /\ ~h_call.called
    /\ h_decode.status = "none"
    /\ \E overflow_checks \in BOOLEAN :
           HeaderReadAtJoin(dst_len, offset,
                            Header_read_at(h_header, dst_len, offset, overflow_checks))
    /\ UNCHANGED <<h_header, h_decode>>

\* a call, given its input and its result r
HeaderDecodeJoin(buf, r) ==
    h_decode' = [input |-> buf, status |-> r.status, header |-> r.header]

\* decode of the encoded header followed by `extra` bytes
h_decode_buf(extra) ==
    /\ ~h_call.called
    /\ h_decode.status = "none"
    /\ HeaderDecodeJoin(Header_encode(h_header) \o extra,
                        Header_decode(Header_encode(h_header) \o extra))
    /\ UNCHANGED <<h_header, h_call>>

\* the bytes that follow the header in a buffer that is not truncated to it
ExtraInputs == {<<>>, <<9>>, <<1, 65>>}

HInit ==
    /\ h_header \in HeaderInputs
    /\ h_call = NoCall
    /\ h_decode = NoHeaderDecode

InitHeader == HInit /\ WIdle /\ EIdle /\ OIdle

NextHeader ==
    \/ (\E dst_len \in (0..MaxStep) \cup {Header_binary_size(h_header) + 1},
           offset \in 0..(Header_binary_size(h_header) + 1) :
               h_read_at(dst_len, offset)) /\ UNCHANGED <<wvars, evars, ovars>>
    \/ (\E extra \in ExtraInputs : h_decode_buf(extra)) /\ UNCHANGED <<wvars, evars, ovars>>

SpecHeader == InitHeader /\ [][NextHeader]_vars

(***************************************************************************)
(* Properties of the resumable reads, of decode and of the journal writer. *)
(***************************************************************************)
\* C1: a resumable read of an entry (read_at from offset 0 with non-empty
\* buffers, advancing by the returned count until a call returns 0) returns,
\* concatenated, exactly the bytes of encode, for every key length.
C1_ReadAtEqualsEncode ==
    (e_phase = "built" /\ r_done) => r_out = EntryV1_encode(entry)

\* C2: with a buffer capacity >= 1 and a sink whose writes succeed, after
\* any sequence of append_entry calls that returned Ok the bytes written to
\* the sink followed by buffer[0..cursor) are the frames of the appended
\* entries, in call order.
C2_SinkThenBufferIsFrames ==
    (a_pc = "idle" /\ g_fails = 0 /\ Len(writer.buffer) >= 1)
        => writer.file \o Take(writer.buffer, writer.offset) = g_frames

\* C3: once the digest of a JournalEntryContext is finalized, the checksum
\* is the CRC-32 (Castagnoli) of the encoded entry, in little-endian order.
C3_ChecksumOfEncodedEntry ==
    (a_pc # "idle" /\ a_context.digest = <<>>)
        => a_context.checksum = crc32_iscsi(EntryV1_encode(a_context.entry))

\* C4: after sync returned Ok, with a sink that never failed, the frames of
\* all entries whose append_entry returned Ok are in the sink.
C4_SyncedFramesAreInSink ==
    (g_last = [op |-> "sync", result |-> "Ok"] /\ g_fails = 0
         /\ Len(writer.buffer) >= 1)
        => /\ Len(writer.file) >= Len(g_frames)
           /\ Take(writer.file, Len(g_frames)) = g_frames

\* C5: decoding a buffer that holds a valid magic byte and the 28 other
\* bytes of the common header, and no header, returns the error KVNotFound.
C5_NoHeaderIsKVNotFound ==
    (d_result.status # "none" /\ Len(d_input) = COMMON_HEADER_BINARY_SIZE
         /\ Magic_try_from(d_input[1]).ok)
        => d_result.status = "KVNotFound"

\* C6: Header::read_at(buf, offset), for every offset in 0..=binary_size and
\* every buffer length, writes the bytes encode(h)[offset .. offset + n].
C6_HeaderReadAtIsSliceOfEncode ==
    (h_call.called /\ h_call.offset <= Header_binary_size(h_header))
        => /\ ~h_call.panic
           /\ h_call.out = Take(Drop(Header_encode(h_header), h_call.offset),
                                Len(h_call.out))

\* C7: the read_at calls append_entry makes on a JournalEntryContext, all
\* with non-empty buffers, return, concatenated, the size delimiter of
\* entry.binary_size(), the encoded entry and the 4 checksum bytes.
C7_ContextReadIsFrame ==
    (g_last = [op |-> "append_entry", result |-> "Ok"] /\ Len(writer.buffer) >= 1)
        => g_out = Frame(a_context.entry, a_context.checksum)

\* C8: decode(encode(e)) of an entry e built by BuilderV1 succeeds with an
\* entry of identical magic, attr, log_id, entry_id, last_confirm_id, key,
\* value and auxiliary headers (same order).
C8_DecodeEncodeRoundTrip ==
    (e_phase = "built" /\ d_result.status # "none" /\ d_input = EntryV1_encode(entry))
        => /\ d_result.status = "ok"
           /\ EntryV1_magic(d_result.entry) = EntryV1_magic(entry)
           /\ EntryV1_attr(d_result.entry) = EntryV1_attr(entry)
           /\ EntryV1_log_id(d_result.entry) = EntryV1_log_id(entry)
           /\ EntryV1_entry_id(d_result.entry) = EntryV1_entry_id(entry)
           /\ EntryV1_last_confirm_id(d_result.entry) = EntryV1_last_confirm_id(entry)
           /\ EntryV1_key(d_result.entry) = EntryV1_key(entry)
           /\ EntryV1_value(d_result.entry) = EntryV1_value(entry)
           /\ EntryV1_headers(d_result.entry) = EntryV1_headers(entry)

\* a round trip of an entry with two auxiliary headers, a negative attr and
\* an empty key
C8_Witness ==
    /\ e_phase = "built"
    /\ d_input = EntryV1_encode(entry)
    /\ d_result.status = "ok"
    /\ Len(EntryV1_headers(entry)) = 2
    /\ EntryV1_headers(entry)[1] # EntryV1_headers(entry)[2]
    /\ EntryV1_key(entry) = <<>>
    /\ EntryV1_attr(entry) < 0

\* C9: encode writes binary_size() bytes, and the counts returned by a
\* complete resumable read sum to binary_size().
C9_SizesAgree ==
    e_phase = "built"
        => /\ Len(EntryV1_encode(entry)) = EntryV1_binary_size(entry)
           /\ r_done => r_offset = EntryV1_binary_size(entry)

\* a complete read, in more than one call, of an entry with an auxiliary
\* header and a key whose length delimiter has two bytes
C9_Witness ==
    /\ e_phase = "built"
    /\ r_done
    /\ r_offset = EntryV1_binary_size(entry)
    /\ Len(EntryV1_key(entry)) = LongKey
    /\ Len(EntryV1_headers(entry)) >= 1

\* C10: for every buffer capacity, every read_at call of append_entry gets
\* a destination slice buffer[cursor..] of non-zero length.
C10_NonEmptySlice ==
    g_reads > 0 => g_dst_len >= 1

\* an append_entry that returned Ok after a single read_at call on a
\* zero-length slice, with no byte of the entry written or buffered
C10_EmptySliceAppend ==
    /\ g_last = [op |-> "append_entry", result |-> "Ok"]
    /\ g_reads = 1
    /\ g_dst_len = 0
    /\ g_frames # <<>>
    /\ writer.file = <<>>
    /\ writer.offset = 0
    /\ writer.size = 0

\* C11: whenever append_entry returns Ok, the running offset of its context
\* is the length of the whole frame (size delimiter, entry, 4 checksum
\* bytes), and the read_at call that returned 0 came after at least one
\* call that returned a positive count.
C11_OkMeansWholeFrame ==
    (g_last = [op |-> "append_entry", result |-> "Ok"])
        => /\ a_offset = length_delimiter_len(EntryV1_binary_size(a_context.entry))
                         + EntryV1_binary_size(a_context.entry) + 4
           /\ g_reads >= 2
           /\ g_k = 0

\* C12: with a buffer capacity >= 1 and a sink whose writes succeed, every
\* read_at call of append_entry on a non-empty slice at an offset before the
\* end of the frame returns at least 1, and append_entry eventually returns
\* Ok with the running offset at the end of the frame.
C12_AppendEntryTerminates ==
    /\ []((g_reads > 0 /\ g_dst_len >= 1
             /\ a_offset - g_k < length_delimiter_len(EntryV1_binary_size(a_context.entry))
                                 + EntryV1_binary_size(a_context.entry) + 4)
            => g_k >= 1)
    /\ (a_pc = "loop" /\ Len(writer.buffer) >= 1)
           ~> (/\ a_pc = "idle"
               /\ g_last = [op |-> "append_entry", result |-> "Ok"]
               /\ a_offset = length_delimiter_len(EntryV1_binary_size(a_context.entry))
                             + EntryV1_binary_size(a_context.entry) + 4)

\* a second append_entry, of an entry with a two-byte size delimiter, that
\* returned Ok after flushing a one-byte buffer once per byte of its frame
C12_Witness ==
    /\ a_pc = "idle"
    /\ g_last = [op |-> "append_entry", result |-> "Ok"]
    /\ g_appends = 2
    /\ Len(writer.buffer) = 1
    /\ EntryV1_binary_size(a_context.entry) >= 128
    /\ g_reads = a_offset + 1
    /\ Len(writer.file) > a_offset

\* C13: a sync call, successful or failing, writes no byte to the sink and
\* leaves the buffer, the cursor and the size counter as they were.
C13_SyncLeavesWriterAlone ==
    [][(a_pc = "idle" /\ a_pc' = "idle" /\ g_last'.op = "sync")
           => (/\ writer'.file = writer.file
               /\ writer'.buffer = writer.buffer
               /\ writer'.offset = writer.offset
               /\ writer'.size = writer.size)]_vars

\* sync returned Ok while bytes of an appended frame are still in the buffer
\* and not in the sink
C13_Witness ==
    /\ g_last = [op |-> "sync", result |-> "Ok"]
    /\ writer.offset > 0
    /\ Len(writer.file) + writer.offset = writer.size
    /\ Len(writer.file) > 0

\* C14: size() never decreases while append_entry runs or after it returned,
\* Ok or Io, and when append_entry(e) has returned Ok, size() is its value at
\* the call plus length_delimiter_len(e.binary_size()) + e.binary_size() + 4.
C14_SizeGrowsByFrame ==
    /\ writer.size >= g_size0
    /\ (g_last = [op |-> "append_entry", result |-> "Ok"])
           => writer.size = g_size0
                            + length_delimiter_len(EntryV1_binary_size(a_context.entry))
                            + EntryV1_binary_size(a_context.entry) + 4

\* C15: a loop iteration of append_entry that finds the buffer full and whose
\* flush succeeds appends exactly buffer[0..cursor) to the sink and restarts
\* the cursor at 0 (it then stands at the count of the read_at that follows);
\* an iteration that finds room writes nothing to the sink; when the sink
\* write fails append_entry returns the I/O error in that step, with no
\* read_at call, the cursor not reset and at most a part of the buffer written
\* once.
C15_FlushWritesBufferOrFails ==
    [][/\ (a_pc = "loop" /\ g_reads' = g_reads + 1 /\ Len(writer.buffer) = writer.offset)
              => /\ writer'.file = writer.file \o SubSeq(writer.buffer, 1, writer.offset)
                 /\ writer'.offset = g_k'
       /\ (a_pc = "loop" /\ g_reads' = g_reads + 1 /\ Len(writer.buffer) # writer.offset)
              => writer'.file = writer.file
       /\ (a_pc = "loop" /\ g_last' = [op |-> "append_entry", result |-> "Io"])
              => /\ a_pc' = "idle"
                 /\ g_reads' = g_reads
                 /\ a_offset' = a_offset
                 /\ a_context' = a_context
                 /\ writer'.offset = writer.offset
                 /\ writer'.size = writer.size
                 /\ writer'.buffer = writer.buffer
                 /\ \E n \in 0..writer.offset :
                        writer'.file = writer.file \o SubSeq(writer.buffer, 1, n)]_vars

\* append_entry returned the I/O error of a flush that came after a successful
\* flush of the same call, before the frame was complete
C15_Witness ==
    /\ g_last = [op |-> "append_entry", result |-> "Io"]
    /\ a_pc = "idle"
    /\ writer.offset = Len(writer.buffer)
    /\ writer.offset >= 2
    /\ a_offset > writer.offset
    /\ Len(writer.file) >= writer.offset
    /\ a_offset < length_delimiter_len(EntryV1_binary_size(a_context.entry))
                  + EntryV1_binary_size(a_context.entry) + 4

\* C16: decoding a non-empty buffer whose first byte is not 0x01 fails with
\* InvalidMagic and yields no entry, whatever follows the first byte: a rest
\* that is a well-formed entry body is not decoded, and a rest too short to
\* hold a common header is not read.
C16_UnknownMagicIsInvalidMagic ==
    (d_result.status # "none" /\ d_input # <<>> /\ Head(d_input) # 1)
        => d_result = DecodeResult("InvalidMagic", NoEntry)

\* decode was given the encoding of the built entry with its first byte
\* replaced by 0x02 and answered InvalidMagic
C16_Witness ==
    /\ d_result.status = "InvalidMagic"
    /\ e_phase = "built"
    /\ Len(d_input) > COMMON_HEADER_BINARY_SIZE
    /\ Head(d_input) = 2
    /\ <<1>> \o Tail(d_input) = EntryV1_encode(entry)

\* C17: for every Header h, encode writes exactly h.binary_size() bytes, and
\* decode of a buffer of exactly h.binary_size() bytes holding them succeeds
\* with the key and the value of h, empty ones included.
C17_HeaderRoundTrip ==
    /\ Len(Header_encode(h_header)) = Header_binary_size(h_header)
    /\ (h_decode.status # "none" /\ Len(h_decode.input) = Header_binary_size(h_header))
           => /\ h_decode.input = Header_encode(h_header)
              /\ h_decode.status = "ok"
              /\ h_decode.header.key = h_header.key
              /\ h_decode.header.value = h_header.value

\* a header with a key of 128 bytes (two-byte key delimiter) and an empty
\* value was decoded from its own encoding
C17_Witness ==
    /\ h_decode.status = "ok"
    /\ h_decode.input = Header_encode(h_header)
    /\ Len(h_header.key) = LongKey
    /\ h_header.value = <<>>
    /\ Len(h_decode.input) = LongKey + 2

\* C18: within one append_entry the digest of the context is taken at most
\* once, by the first read_at that gets past the entry bytes, which stores
\* the finalized value as the checksum; every later read_at leaves the
\* context as it is, and the bytes a read_at delivers from the checksum
\* region are the bytes of that stored checksum at the offset asked for.
C18_ChecksumFinalizedOnce ==
    [][(a_pc = "loop" /\ g_reads' = g_reads + 1)
          => LET start == length_delimiter_len(EntryV1_binary_size(a_context.entry))
                          + EntryV1_binary_size(a_context.entry)
                 took == a_context.digest # <<>> /\ a_context'.digest = <<>>
             IN  /\ a_context'.entry = a_context.entry
                 /\ a_context.digest = <<>> => a_context' = a_context
                 /\ a_context'.digest # <<>> => a_context' = a_context
                 /\ took => /\ a_context'.checksum = CrcFinalize(a_context.digest[1])
                            /\ a_offset >= start \/ a_offset' >= start
                 /\ a_offset' > start
                        => LET from == IF a_offset > start THEN a_offset ELSE start
                           IN  /\ a_context'.digest = <<>>
                               /\ g_k' = a_offset' - a_offset
                               /\ SubSeq(g_out', Len(g_out') - (a_offset' - from) + 1,
                                         Len(g_out'))
                                      = SubSeq(a_context'.checksum, from - start + 1,
                                               a_offset' - start)]_vars

\* the 4 checksum bytes of a frame went out one read_at each, after the
\* digest had been taken by an earlier read_at, and append_entry returned Ok
C18_Witness ==
    /\ g_last = [op |-> "append_entry", result |-> "Ok"]
    /\ Len(writer.buffer) = 1
    /\ a_context.digest = <<>>
    /\ a_offset = length_delimiter_len(EntryV1_binary_size(a_context.entry))
                  + EntryV1_binary_size(a_context.entry) + 4
    /\ g_reads = a_offset + 1
    /\ SubSeq(g_out, Len(g_out) - 3, Len(g_out)) = a_context.checksum

\* C19: when two append_entry calls have each delivered their checksum
\* trailer and the encoded forms of their entries differ, the two trailers
\* differ.
C19_TrailersTellEntriesApart ==
    (/\ g_prev.digest = <<>>
     /\ a_context.digest = <<>>
     /\ EntryV1_encode(g_prev.entry) # EntryV1_encode(a_context.entry))
        => g_prev.checksum # a_context.checksum

\* C20: Header::read_at(buf, offset) never underflows or slices out of
\* range; it returns min(buf.len(), binary_size() - offset) when offset is
\* below binary_size(), and 0 when offset is binary_size() or more.
C20_HeaderReadAtCount ==
    h_call.called
        => /\ ~h_call.panic
           /\ Len(h_call.out) =
                  IF h_call.offset < Header_binary_size(h_header)
                  THEN Min(h_call.dst_len, Header_binary_size(h_header) - h_call.offset)
                  ELSE 0

\* a read from the second byte of a two-byte key delimiter into a buffer
\* larger than the header, which returned binary_size() - 1
C20_Witness ==
    /\ h_call.called
    /\ Len(h_header.key) = LongKey
    /\ h_header.value # <<>>
    /\ h_call.offset = 1
    /\ h_call.dst_len = Header_binary_size(h_header) + 1
    /\ Len(h_call.out) = Header_binary_size(h_header) - 1

\* C21: EntryV1::read_at(buf, offset) never underflows; it writes at most
\* buf.len() bytes, returns min(buf.len(), binary_size() - offset) when
\* offset is below binary_size(), and with a non-empty buffer returns 0
\* exactly when offset is binary_size() or more.
C21_EntryReadAtCount ==
    r_last.called
        => /\ ~r_last.panic
           /\ Len(r_last.out) <= r_last.dst_len
           /\ r_last.offset < EntryV1_binary_size(entry)
                  => Len(r_last.out) = Min(r_last.dst_len,
                                           EntryV1_binary_size(entry) - r_last.offset)
           /\ r_last.dst_len >= 1
                  => (Len(r_last.out) = 0 <=> r_last.offset >= EntryV1_binary_size(entry))

\* a read from the second byte of the two-byte size delimiter of an auxiliary
\* header, behind another auxiliary header, into a buffer that takes the rest
C21_Witness ==
    /\ r_last.called
    /\ Len(EntryV1_headers(entry)) = 2
    /\ r_last.offset = COMMON_HEADER_BINARY_SIZE + 3
    /\ r_last.dst_len = EntryV1_binary_size(entry) + 1
    /\ Len(r_last.out) = EntryV1_binary_size(entry) - r_last.offset

\* C22: build panics exactly when kv was never called, whatever other
\* setters were called, and then yields no entry; an entry that build
\* returns carries the kv header last set.
C22_BuildWithoutKvPanics ==
    /\ e_phase = "panicked" => (b_args.kv = <<>> /\ entry = NoEntry)
    /\ e_phase = "built" => (b_args.kv # <<>> /\ entry.kv = b_args.kv[1])

\* build panicked after attr, log_id, entry_id, last_confirm_id and two
\* header calls, with no kv call
C22_Witness ==
    /\ e_phase = "panicked"
    /\ b_args.kv = <<>>
    /\ b_args.attr = 5
    /\ b_args.log_id = 300
    /\ b_args.entry_id = 2
    /\ b_args.last_confirm_id = 3
    /\ Len(b_args.headers) = 2

\* C23: the accessors of a built entry return magic V1 and, for attr, log_id,
\* entry_id, last_confirm_id, key and value, the argument of the last call of
\* the setter (0 where it was never called); headers() is the sequence of the
\* arguments of the header calls, in call order.
C23_AccessorsReturnSetterValues ==
    e_phase = "built"
        => /\ EntryV1_magic(entry) = MagicV1
           /\ EntryV1_attr(entry) = b_args.attr
           /\ EntryV1_log_id(entry) = b_args.log_id
           /\ EntryV1_entry_id(entry) = b_args.entry_id
           /\ EntryV1_last_confirm_id(entry) = b_args.last_confirm_id
           /\ EntryV1_key(entry) = b_args.kv[1].key
           /\ EntryV1_value(entry) = b_args.kv[1].value
           /\ EntryV1_headers(entry) = b_args.headers

\* an entry built after a negative attr, a 128-byte key and two different
\* auxiliary headers
C23_Witness ==
    /\ e_phase = "built"
    /\ EntryV1_attr(entry) = -2
    /\ EntryV1_log_id(entry) = 300
    /\ Len(EntryV1_key(entry)) = LongKey
    /\ Len(EntryV1_headers(entry)) = 2
    /\ EntryV1_headers(entry)[1] # EntryV1_headers(entry)[2]
    /\ EntryV1_headers(entry)[1].key = <<>>

\* C24 (as stated): the entry with log_id 1, entry_id 2, default attr,
\* last_confirm_id 3, kv ("key", "value") and the one auxiliary header
\* ("key", "value") has binary_size() 64.
C24_ScenarioSizeIs64 ==
    (/\ e_phase = "built"
     /\ EntryV1_log_id(entry) = 1 /\ EntryV1_entry_id(entry) = 2
     /\ EntryV1_attr(entry) = 0 /\ EntryV1_last_confirm_id(entry) = 3
     /\ EntryV1_key(entry) = KeyBytes /\ EntryV1_value(entry) = ValueBytes
     /\ EntryV1_headers(entry) = <<Header_new(KeyBytes, ValueBytes)>>)
        => EntryV1_binary_size(entry) = 64

\* C24 (amended): that entry has binary_size() 29 + (1+1+3+5) + (1+1+3+5)
\* = 49: each of the two headers takes a size delimiter, a key length
\* delimiter, the key and the value; the encoding has that many bytes.
C24_ScenarioSizeIs49 ==
    (/\ e_phase = "built"
     /\ EntryV1_log_id(entry) = 1 /\ EntryV1_entry_id(entry) = 2
     /\ EntryV1_attr(entry) = 0 /\ EntryV1_last_confirm_id(entry) = 3
     /\ EntryV1_key(entry) = KeyBytes /\ EntryV1_value(entry) = ValueBytes
     /\ EntryV1_headers(entry) = <<Header_new(KeyBytes, ValueBytes)>>)
        => /\ EntryV1_binary_size(entry)
                  = COMMON_HEADER_BINARY_SIZE + (1 + 1 + 3 + 5) + (1 + 1 + 3 + 5)
           /\ EntryV1_binary_size(entry) = 49
           /\ Len(EntryV1_encode(entry)) = 49

\* that entry, read from offset 0 into a buffer of binary_size() + 1 bytes,
\* gave 49 bytes
C24_Witness ==
    /\ e_phase = "built"
    /\ entry = ScenarioEntry
    /\ EntryV1_log_id(entry) = 1
    /\ EntryV1_headers(entry) = <<Header_new(KeyBytes, ValueBytes)>>
    /\ r_last.called
    /\ r_last.offset = 0
    /\ r_last.dst_len = 50
    /\ Len(r_last.out) = 49

\* C25: in the earlier revision, for every entry built by EntryBuilder,
\* Entry::decode of the bytes written by encode succeeds and gives the same
\* magic, attr, log_id, entry_id, last_confirm, kv key and value, and the
\* same auxiliary headers in the same order.
C25_EarlierRevisionRoundTrip ==
    o_decoded.status # "none"
        => /\ o_decoded.status = "ok"
           /\ o_decoded.entry.magic = o_entry.magic
           /\ o_decoded.entry.attr = o_entry.attr
           /\ o_decoded.entry.log_id = o_entry.log_id
           /\ o_decoded.entry.entry_id = o_entry.entry_id
           /\ o_decoded.entry.last_confirm = o_entry.last_confirm
           /\ o_decoded.entry.kv.key = o_entry.kv.key
           /\ o_decoded.entry.kv.value = o_entry.kv.value
           /\ o_decoded.entry.headers = o_entry.headers

\* the round trip of an entry with negative attr and log_id, a kv with a
\* value, and two different auxiliary headers, one of them with a 128-byte
\* value, so that the outer length delimiter has two bytes
C25_Witness ==
    /\ o_decoded.status = "ok"
    /\ o_entry.attr = -2
    /\ o_entry.log_id = -1
    /\ o_entry.kv.value # <<>>
    /\ Len(o_entry.headers) = 2
    /\ o_entry.headers[1] # o_entry.headers[2]
    /\ Len(o_entry.headers[2].value) = LongKey
    /\ o_decoded.entry = o_entry

\* C26: decode of a buffer made of a 29-byte common header with magic 0x01
\* and k >= 1 headers, each behind the varint of its size, succeeds; the
\* entry keeps the 29 bytes, its kv is the k-th header and its headers() are
\* the first k-1 headers in buffer order.
C26_LastHeaderIsKv ==
    LET all == Append(entry.headers, entry.kv)
    IN  (/\ e_phase = "built"
         /\ d_result.status # "none"
         /\ d_input = entry.common_header \o EncodeHeaders(all)
         /\ d_input[1] = 1)
            => /\ d_result.status = "ok"
               /\ d_result.entry.common_header = SubSeq(d_input, 1, COMMON_HEADER_BINARY_SIZE)
               /\ d_result.entry.kv = all[Len(all)]
               /\ d_result.entry.headers = SubSeq(all, 1, Len(all) - 1)
               /\ Len(d_input) = COMMON_HEADER_BINARY_SIZE + SumHeaderSizes(all)

\* decode of a buffer with k = 3 headers, the first two different from each
\* other and the last with a two-byte size varint, gave two headers and a kv
C26_Witness ==
    /\ e_phase = "built"
    /\ d_result.status = "ok"
    /\ Len(d_result.entry.headers) = 2
    /\ d_result.entry.headers[1] # d_result.entry.headers[2]
    /\ Len(d_result.entry.kv.key) = LongKey
    /\ d_result.entry.kv # d_result.entry.headers[2]
    /\ Len(d_input) > COMMON_HEADER_BINARY_SIZE + LongKey

\* C27: a flush that fails inside append_entry leaves the cursor equal to the
\* capacity and size with the bytes already counted for the unfinished entry;
\* once the following append_entry has returned Ok, the journal stream (sink
\* then buffer[..cursor]) is the part of the failed entry's frame counted in
\* size, with the bytes of the failed write that reached the sink written
\* once more, followed by the complete frame of the new entry.
C27_FailedFlushThenNewFrame ==
    LET stream == writer.file \o SubSeq(writer.buffer, 1, writer.offset)
        cap == Len(writer.buffer)
        new == Frame(a_context.entry, a_context.checksum)
        old == Frame(g_prev.entry, g_prev.checksum)
        pre == SubSeq(stream, 1, Len(stream) - Len(new))
    IN  /\ (g_last = [op |-> "append_entry", result |-> "Io"])
            => /\ writer.offset = cap
               /\ writer.size = g_size0 + a_offset
               /\ a_offset < Len(Frame(a_context.entry, a_context.checksum))
        /\ (/\ g_appends = 2
            /\ g_fails = 1
            /\ g_last = [op |-> "append_entry", result |-> "Ok"]
            /\ g_frames = new)
            => /\ g_size0 < Len(old)
               /\ SubSeq(stream, Len(stream) - Len(new) + 1, Len(stream)) = new
               /\ \E written \in 0..(cap - 1) :
                      pre = SubSeq(old, 1, g_size0 - cap)
                            \o SubSeq(old, g_size0 - cap + 1, g_size0 - cap + written)
                            \o SubSeq(old, g_size0 - cap + 1, g_size0)

\* C28: with capacity C >= 1 and a sink that never fails, whenever no
\* append_entry is in progress cursor < C, cursor = size mod C and the sink
\* holds size - cursor bytes; and every write to the sink is a write of the
\* whole buffer, C bytes.
C28_FlushOnlyWhenFull ==
    /\ [](LET cap == Len(writer.buffer)
          IN  (cap >= 1 /\ a_pc = "idle")
                  => /\ writer.offset < cap
                     /\ writer.offset = writer.size % cap
                     /\ Len(writer.file) = writer.size - writer.offset)
    /\ [][(Len(writer.buffer) >= 1 /\ writer'.file # writer.file)
              => /\ writer.offset = Len(writer.buffer)
                 /\ writer'.file = writer.file \o writer.buffer]_vars

\* two entries were appended through a 3-byte buffer: the sink was written
\* many times and the buffer holds the last bytes of the second frame
C28_Witness ==
    /\ Len(writer.buffer) = 3
    /\ a_pc = "idle"
    /\ g_appends = 2
    /\ g_last = [op |-> "append_entry", result |-> "Ok"]
    /\ writer.offset = 2
    /\ Len(writer.file) > 60

\* C29: in every reachable state of the writer 0 <= cursor <= capacity and
\* at most `capacity` of the bytes counted in size are outside the sink; no
\* step of append_entry, flush or sync changes the length of the buffer.
C29_CursorWithinCapacity ==
    /\ [](/\ 0 <= writer.offset
          /\ writer.offset <= Len(writer.buffer)
          /\ writer.size - Len(writer.file) <= Len(writer.buffer))
    /\ [][Len(writer'.buffer) = Len(writer.buffer)]_vars

\* a 160-byte entry went through a 3-byte buffer after a 31-byte one: the
\* buffer was filled and flushed many times and holds one byte
C29_Witness ==
    /\ Len(writer.buffer) = 3
    /\ writer.offset = 1
    /\ g_appends = 2
    /\ a_pc = "idle"
    /\ writer.size > 190
    /\ Len(writer.file) >= 190

\* C30: every read_at call of append_entry is made with a running offset of
\* at most the frame length (delimiter + entry + 4), so the offset into the
\* checksum is at most 4 and the slice get_checksum()[offset..] never
\* panics; the call made at the frame length returns 0 and append_entry
\* returns Ok without another call.
C30_ReadOffsetsWithinFrame ==
    /\ [](/\ a_pc # "panicked"
          /\ (a_pc = "loop")
                 => LET sz == EntryV1_binary_size(a_context.entry)
                        sz_size == length_delimiter_len(sz)
                    IN  /\ a_offset <= sz_size + sz + 4
                        /\ a_offset - sz_size - sz <= 4)
    /\ [][(/\ a_pc = "loop"
           /\ g_reads' = g_reads + 1
           /\ a_offset = Len(Frame(a_context.entry, a_context.checksum)))
              => /\ g_k' = 0
                 /\ a_pc' = "idle"
                 /\ a_offset' = a_offset
                 /\ g_last' = [op |-> "append_entry", result |-> "Ok"]]_vars

\* append_entry of the 160-byte entry through a 4-byte buffer returned after
\* a call at offset 166, the frame length, that returned 0; the call before
\* it started inside the checksum
C30_Witness ==
    /\ Len(writer.buffer) = 4
    /\ a_pc = "idle"
    /\ g_last = [op |-> "append_entry", result |-> "Ok"]
    /\ g_k = 0
    /\ g_reads > 40
    /\ a_offset = 166
    /\ a_offset = Len(Frame(a_context.entry, a_context.checksum))

\* C31: after any sequence of setter calls the common header of the builder
\* is magic 0x01, then attr in 4 bytes, log_id, entry_id and last_confirm_id
\* in 8 bytes each, little-endian and equal to the last value set (0 when
\* never set); a setter call changes bytes of its own range only, kv and
\* header change none; the built entry keeps the 29 bytes and encode emits
\* them as the first 29 bytes of its output.
C31_CommonHeaderLayout ==
    /\ [](e_phase \in {"building", "built"}
             => /\ Len(builder.common_header) = 29
                /\ builder.common_header[1] = 1
                /\ SubSeq(builder.common_header, 2, 5) = to_le_bytes(b_args.attr, 4)
                /\ SubSeq(builder.common_header, 6, 13) = to_le_bytes(b_args.log_id, 8)
                /\ SubSeq(builder.common_header, 14, 21) = to_le_bytes(b_args.entry_id, 8)
                /\ SubSeq(builder.common_header, 22, 29)
                       = to_le_bytes(b_args.last_confirm_id, 8))
    /\ [](e_phase = "built"
             => /\ entry.common_header = builder.common_header
                /\ SubSeq(EntryV1_encode(entry), 1, 29) = builder.common_header)
    /\ [][\A i \in 1..29 :
              (e_phase = "building" /\ builder'.common_header[i] # builder.common_header[i])
                  => \/ i \in 2..5 /\ \E attr \in AttrInputs : b_attr(attr)
                     \/ i \in 6..13 /\ \E log_id \in LogIdInputs : b_log_id(log_id)
                     \/ i \in 14..21 /\ \E entry_id \in EntryIdInputs : b_entry_id(entry_id)
                     \/ i \in 22..29 /\ \E last_confirm_id \in LastConfirmIdInputs :
                                            b_last_confirm_id(last_confirm_id)]_vars

\* an entry built after attr -2, log_id -1, entry_id 2, last_confirm_id 3,
\* a kv and an auxiliary header were set: no field of the common header is 0
C31_Witness ==
    /\ e_phase = "built"
    /\ b_args.attr = -2
    /\ b_args.log_id = -1
    /\ b_args.entry_id = 2
    /\ b_args.last_confirm_id = 3
    /\ Len(b_args.headers) = 1
    /\ entry.common_header[2] = 254
    /\ entry.common_header[13] = 255
    /\ entry.common_header[14] = 2
    /\ entry.common_header[22] = 3

\* C32: Header::decode of a buffer that starts with an encoded header takes
\* the first varint as the key length, the bytes it counts as the key and
\* all the bytes left as the value: bytes that follow the header in the
\* buffer end up at the end of its value, and delimiter, key and value
\* together are the whole buffer (nothing is left in it).
C32_DecodeValueIsRest ==
    (h_decode.status # "none")
        => \E extra \in ExtraInputs :
               /\ h_decode.input = Header_encode(h_header) \o extra
               /\ h_decode.status = "ok"
               /\ h_decode.header.key = h_header.key
               /\ h_decode.header.value = h_header.value \o extra
               /\ Len(h_decode.input)
                      = length_delimiter_len(Len(h_decode.header.key))
                        + Len(h_decode.header.key) + Len(h_decode.header.value)
               /\ (Len(h_decode.input) > Header_binary_size(h_header))
                      => Len(h_decode.header.value) > Len(h_header.value)

\* a header with a 128-byte key and a 2-byte value was decoded from a buffer
\* that holds two more bytes than its binary_size: the value has 4 bytes
C32_Witness ==
    /\ h_decode.status = "ok"
    /\ Len(h_header.key) = LongKey
    /\ Len(h_header.value) = 2
    /\ Len(h_decode.input) = Header_binary_size(h_header) + 2
    /\ Len(h_decode.header.value) = 4
    /\ h_decode.header.value # h_header.value

\* C33: build succeeds whenever kv was set, whichever of attr, log_id,
\* entry_id and last_confirm_id were set; in the built entry each of these
\* that was never set reads back as 0 (the default Attr for attr), and magic
\* reads back as V1.
C33_BuildNeedsOnlyKv ==
    /\ [][(e_phase = "building" /\ e_phase' # "building" /\ b_args.kv # <<>>)
              => e_phase' = "built"]_vars
    /\ [](e_phase = "built"
             => /\ EntryV1_magic(entry) = MagicV1
                /\ (b_args.attr = 0 => EntryV1_attr(entry) = 0)
                /\ (b_args.log_id = 0 => EntryV1_log_id(entry) = 0)
                /\ (b_args.entry_id = 0 => EntryV1_entry_id(entry) = 0)
                /\ (b_args.last_confirm_id = 0 => EntryV1_last_confirm_id(entry) = 0)
                /\ (b_args.attr # 0 => EntryV1_attr(entry) # 0)
                /\ (b_args.log_id # 0 => EntryV1_log_id(entry) # 0))

\* an entry built after a kv call and nothing else: only the magic byte of
\* its common header is not 0
C33_Witness ==
    /\ e_phase = "built"
    /\ b_args = [NoArgs EXCEPT !.kv = b_args.kv]
    /\ b_args.kv # <<>>
    /\ entry.common_header = <<1>> \o Zeros(28)
    /\ EntryV1_log_id(entry) = 0
    /\ Len(EntryV1_key(entry)) = LongKey


=============================================================================
